---- MODULE Spec2Model ----
(***************************************************************************)
(* A model of nvidia-lb_sd: the service-discovery Registry                 *)
(* (service-discovery/app/services/registry.py), the load balancer's       *)
(* routing handler with its discovery client (load-balancer/app/api/       *)
(* routes.py, services/discovery_client.py), the selection algorithms     *)
(* with the adaptive Picker (services/algorithms/*.py, services/picker.py),*)
(* the health poller (service-discovery/app/services/health.py) and the    *)
(* reverse-proxy forwarder (load-balancer/app/services/proxy.py).          *)
(***************************************************************************)
EXTENDS Integers, Sequences, FiniteSets, TLC

(***************************************************************************)
(* Bounds of the model and program constants.                              *)
(***************************************************************************)
\* Registry clock: monotonic() is modelled as an integer number of seconds.
MaxTime == 120
TickStep == 60
\* The registry holds at most MaxRecords records (endpoints and parts together).
MaxRecords == 2
\* registry.py:8, the default of HEARTBEAT_TTL_SEC
HEARTBEAT_TTL_SEC == 60
\* The longest candidate list passed to a pick.
MaxCandidates == 2
\* The load balancer's clock: time.time() in seconds.
MaxLbTime == 62
LbTickStep == 31
\* RoundRobinAlgorithm.pick is called while _index is below MaxIndex.
MaxIndex == 12
\* LeastConnectionsAlgorithm.pick is called while every counter is below MaxConnections.
MaxConnections == 3
\* Picker calls are made while the algorithms' request counts sum to less than MaxRequests.
MaxRequests == 5
\* In a run of requests to one backend, Picker calls are made while the
\* algorithms' request counts sum to less than MaxRunRequests.
MaxRunRequests == 12
\* and the clock advances up to MaxRunTime, past two evaluation windows.
MaxRunTime == 124
\* Successive evaluation windows with a pick each are followed for MaxWindows
\* windows.
MaxWindows == 4
\* Routing requests are accepted while the algorithms' request counts sum to
\* less than MaxRouted.
MaxRouted == 2
\* forward is called at most MaxForwards times, and a body has at most
\* MaxChunks chunks.
MaxForwards == 2
MaxChunks == 2
\* The threads make at most MaxBatches batches of concurrent calls.
MaxBatches == 2
\* Weights are derived for the backends with the ports MinPort..MaxPort.
MinPort == 9005
MaxPort == 9016
\* A payload list has at most MaxItems elements.
MaxItems == 2
\* The poller's cycles are numbered modulo MaxCycles.
MaxCycles == 2
\* discovery_client.py:89, the default of retries
RETRIES == 2
\* discovery_client.py:89, the default of backoff (0.05 s), in milliseconds
BACKOFF_MS == 50
\* The number of consecutive picks on one candidate list that the claims
\* about whole rotations and cycles look at.
MaxRun == 5
\* The largest weight passed to set_backend_weight.
MaxWeight == 2
\* Picker(min_requests_for_switch=...): the constructor's parameter (default 10).
min_requests_for_switch == 1
\* picker.py:22, the default evaluation_window (seconds)
EVALUATION_WINDOW == 60
\* least_conn.py:15, the default connection_timeout (seconds)
CONNECTION_TIMEOUT == 30

Status == {"UP", "DEGRADED", "DOWN"}
EndpointIds == {"w1", "w2"}
ImageIds == {"app1", "app2"}
Hosts == {"127.0.0.1"}
\* The port an instance listens on.
PortOf(i) == IF i = "w1" THEN 9008 ELSE 9009
\* The sub-paths of routing requests.
Paths == {"echo"}
PartIds == {"p1"}
\* The ids of the parts registered while the poller runs.
PolledPartIds == {"p1", "p2"}
Kinds == {"billing", "telemetry"}
PartUrls == {"http://127.0.0.1:7100/health"}

\* EndpointIn (schemas.py): the registration payload; zone, caps and meta keep
\* their default None and are left out.
EndpointIn ==
  {[id |-> i, image_id |-> g, host |-> h, port |-> PortOf(i), status |-> st] :
     i \in EndpointIds, g \in ImageIds, h \in Hosts, st \in Status}

\* SystemPartIn: id, kind, url, status.
SystemPartIn ==
  [id : PartIds, kind : Kinds, url : PartUrls, status : Status]

VARIABLES
  endpoints,   \* Registry._endpoints: id -> EndpointOut
  by_image,    \* Registry._by_image: image_id -> set of ids
  parts,       \* Registry._parts: id -> SystemPartOut
  by_kind,     \* Registry._by_kind: kind -> set of ids
  now,         \* the value monotonic() returns in the service-discovery process
  last_call,   \* the name of the last call made
  ret,         \* what that call returned (or raised)
  rr,          \* RoundRobinAlgorithm: _index, _last_backends_hash
  lc,          \* LeastConnectionsAlgorithm: _connections, _last_request_time
  wrr,         \* WeightedRoundRobinAlgorithm: _current_weights, _last_backends_hash
  stats,       \* BaseAlgorithm: request_count, error_count of each algorithm
  picker,      \* Picker: _current_algorithm_index, _last_evaluation, ...
  lb_now,      \* the value time.time() returns in the load-balancer process
  req,         \* the routing request in flight in route_to_backend, if any
  poll,        \* the task of poll_parts_loop: where it is, and its current cycle
  fwd,         \* the call of proxy.forward in flight, if any, and its resources
  thr          \* the threads that call one RoundRobinAlgorithm concurrently

regVars == <<endpoints, by_image, parts, by_kind, now>>
lbVars == <<rr, lc, wrr, stats, picker, lb_now, req, thr>>
\* What a Registry method and what an algorithm or routing step leave alone.
nonRegVars == <<lbVars, poll, fwd>>
nonLbVars == <<regVars, poll, fwd, thr>>
vars == <<endpoints, by_image, parts, by_kind, now, last_call, ret,
          rr, lc, wrr, stats, picker, lb_now, req, poll, fwd, thr>>

(***************************************************************************)
(* Return values.  Every value is a record with one field, named after its *)
(* kind, so that values of different kinds can be compared.                *)
(***************************************************************************)
None == [none |-> TRUE]
Bool(b) == [bool |-> b]
Rec(r) == [rec |-> r]
List(s) == [list |-> s]
Raised(e) == [raised |-> e]

(***************************************************************************)
(* Registry (service-discovery/app/services/registry.py)                   *)
(***************************************************************************)
\* EndpointOut(**ep.model_dump(), last_heartbeat=monotonic())
EndpointOut(ep, t) ==
  [id |-> ep.id, image_id |-> ep.image_id, host |-> ep.host, port |-> ep.port,
   status |-> ep.status, last_heartbeat |-> t]

SystemPartOut(part, t) ==
  [id |-> part.id, kind |-> part.kind, url |-> part.url,
   status |-> part.status, last_heartbeat |-> t]

\* A freshness test that never expires a heartbeat (the TTL switched off).
is_fresh_never_stale(ts) == TRUE

\* _is_fresh(ts): ts is not None and (monotonic() - ts) <= HEARTBEAT_TTL_SEC.
\* Every stored last_heartbeat is a number: upsert always sets it.
is_fresh(ts) == (now - ts) <= HEARTBEAT_TTL_SEC

\* d[k] = v on a dict d
DictSet(d, k, v) == [x \in DOMAIN d \cup {k} |-> IF x = k THEN v ELSE d[x]]

\* d.pop(k, None), the dict that is left
DictPop(d, k) == [x \in DOMAIN d \ {k} |-> d[x]]

\* The bucket overwritten instead of extended: d[key] = {id}.
SetDefaultAdd_overwrite(d, key, id) == DictSet(d, key, {id})

\* d.setdefault(key, set()).add(id)
SetDefaultAdd(d, key, id) ==
  DictSet(d, key, (IF key \in DOMAIN d THEN d[key] ELSE {}) \cup {id})

\* The id removed and the emptied bucket left in the index.
RemoveAndPrune_no_prune(d, key, id) ==
  IF key \in DOMAIN d /\ id \in d[key] THEN DictSet(d, key, d[key] \ {id}) ELSE d

\* deregister, lines 34-38: s = d.get(key); if s and id in s: s.remove(id);
\* if not s: d.pop(key, None)
RemoveAndPrune(d, key, id) ==
  IF key \in DOMAIN d /\ d[key] # {} /\ id \in d[key]
    THEN IF d[key] \ {id} = {}
           THEN DictPop(d, key)
           ELSE DictSet(d, key, d[key] \ {id})
    ELSE d

NumRecords == Cardinality(DOMAIN endpoints) + Cardinality(DOMAIN parts)

upsert(ep) ==
  LET out == EndpointOut(ep, now) IN
  /\ ep.id \in DOMAIN endpoints \/ NumRecords < MaxRecords
  /\ endpoints' = DictSet(endpoints, ep.id, out)
  /\ by_image' = SetDefaultAdd(by_image, ep.image_id, ep.id)
  /\ ret' = Rec(out)
  /\ last_call' = "upsert"
  /\ UNCHANGED nonRegVars /\ UNCHANGED <<parts, by_kind, now>>

deregister(endpoint_id) ==
  IF endpoint_id \notin DOMAIN endpoints
    THEN /\ ret' = Bool(FALSE)
         /\ last_call' = "deregister"
         /\ UNCHANGED nonRegVars /\ UNCHANGED <<endpoints, by_image, parts, by_kind, now>>
    ELSE /\ endpoints' = DictPop(endpoints, endpoint_id)
         /\ by_image' = RemoveAndPrune(by_image, endpoints[endpoint_id].image_id, endpoint_id)
         /\ ret' = Bool(TRUE)
         /\ last_call' = "deregister"
         /\ UNCHANGED nonRegVars /\ UNCHANGED <<parts, by_kind, now>>

\* set_status that leaves last_heartbeat as it was.
set_status_keeps_heartbeat(endpoint_id, status) ==
  IF endpoint_id \notin DOMAIN endpoints
    THEN /\ ret' = None
         /\ last_call' = "set_status"
         /\ UNCHANGED nonRegVars /\ UNCHANGED <<endpoints, by_image, parts, by_kind, now>>
    ELSE /\ endpoints' = [endpoints EXCEPT ![endpoint_id].status = status]
         /\ ret' = Rec(endpoints'[endpoint_id])
         /\ last_call' = "set_status"
         /\ UNCHANGED nonRegVars /\ UNCHANGED <<by_image, parts, by_kind, now>>

set_status(endpoint_id, status) ==
  IF endpoint_id \notin DOMAIN endpoints
    THEN /\ ret' = None
         /\ last_call' = "set_status"
         /\ UNCHANGED nonRegVars /\ UNCHANGED <<endpoints, by_image, parts, by_kind, now>>
    ELSE /\ endpoints' = [endpoints EXCEPT ![endpoint_id] =
                            [@ EXCEPT !.status = status, !.last_heartbeat = now]]
         /\ ret' = Rec(endpoints'[endpoint_id])
         /\ last_call' = "set_status"
         /\ UNCHANGED nonRegVars /\ UNCHANGED <<by_image, parts, by_kind, now>>

\* heartbeat that also marks the record UP.
heartbeat_marks_up(endpoint_id) ==
  IF endpoint_id \notin DOMAIN endpoints
    THEN /\ ret' = None
         /\ last_call' = "heartbeat"
         /\ UNCHANGED nonRegVars /\ UNCHANGED <<endpoints, by_image, parts, by_kind, now>>
    ELSE /\ endpoints' = [endpoints EXCEPT ![endpoint_id] =
                            [@ EXCEPT !.status = "UP", !.last_heartbeat = now]]
         /\ ret' = Rec(endpoints'[endpoint_id])
         /\ last_call' = "heartbeat"
         /\ UNCHANGED nonRegVars /\ UNCHANGED <<by_image, parts, by_kind, now>>

heartbeat(endpoint_id) ==
  IF endpoint_id \notin DOMAIN endpoints
    THEN /\ ret' = None
         /\ last_call' = "heartbeat"
         /\ UNCHANGED nonRegVars /\ UNCHANGED <<endpoints, by_image, parts, by_kind, now>>
    ELSE /\ endpoints' = [endpoints EXCEPT ![endpoint_id].last_heartbeat = now]
         /\ ret' = Rec(endpoints'[endpoint_id])
         /\ last_call' = "heartbeat"
         /\ UNCHANGED nonRegVars /\ UNCHANGED <<by_image, parts, by_kind, now>>

\* list_by_image: the records of the bucket's ids; self._endpoints[i] raises
\* KeyError for an id of the bucket that has no record.  The result is a
\* Python list in the bucket set's iteration order, modelled as the set of
\* its records.
list_by_image_result(image_id, healthy_only) ==
  LET ids == IF image_id \in DOMAIN by_image THEN by_image[image_id] ELSE {} IN
  IF \E i \in ids : i \notin DOMAIN endpoints
    THEN Raised("KeyError")
    ELSE LET eps == {endpoints[i] : i \in ids} IN
         List(IF healthy_only THEN {e \in eps : e.status = "UP"} ELSE eps)

list_by_image(image_id, healthy_only) ==
  /\ ret' = list_by_image_result(image_id, healthy_only)
  /\ last_call' = "list_by_image"
  /\ UNCHANGED nonRegVars /\ UNCHANGED <<endpoints, by_image, parts, by_kind, now>>

upsert_part(part) ==
  LET out == SystemPartOut(part, now) IN
  /\ part.id \in DOMAIN parts \/ NumRecords < MaxRecords
  /\ parts' = DictSet(parts, part.id, out)
  /\ by_kind' = SetDefaultAdd(by_kind, part.kind, part.id)
  /\ ret' = Rec(out)
  /\ last_call' = "upsert_part"
  /\ UNCHANGED nonRegVars /\ UNCHANGED <<endpoints, by_image, now>>

deregister_part(part_id) ==
  IF part_id \notin DOMAIN parts
    THEN /\ ret' = Bool(FALSE)
         /\ last_call' = "deregister_part"
         /\ UNCHANGED nonRegVars /\ UNCHANGED <<endpoints, by_image, parts, by_kind, now>>
    ELSE /\ parts' = DictPop(parts, part_id)
         /\ by_kind' = RemoveAndPrune(by_kind, parts[part_id].kind, part_id)
         /\ ret' = Bool(TRUE)
         /\ last_call' = "deregister_part"
         /\ UNCHANGED nonRegVars /\ UNCHANGED <<endpoints, by_image, now>>

set_part_status(part_id, status) ==
  IF part_id \notin DOMAIN parts
    THEN /\ ret' = None
         /\ last_call' = "set_part_status"
         /\ UNCHANGED nonRegVars /\ UNCHANGED <<endpoints, by_image, parts, by_kind, now>>
    ELSE /\ parts' = [parts EXCEPT ![part_id] =
                        [@ EXCEPT !.status = status, !.last_heartbeat = now]]
         /\ ret' = Rec(parts'[part_id])
         /\ last_call' = "set_part_status"
         /\ UNCHANGED nonRegVars /\ UNCHANGED <<endpoints, by_image, by_kind, now>>

heartbeat_part(part_id) ==
  IF part_id \notin DOMAIN parts
    THEN /\ ret' = None
         /\ last_call' = "heartbeat_part"
         /\ UNCHANGED nonRegVars /\ UNCHANGED <<endpoints, by_image, parts, by_kind, now>>
    ELSE /\ parts' = [parts EXCEPT ![part_id].last_heartbeat = now]
         /\ ret' = Rec(parts'[part_id])
         /\ last_call' = "heartbeat_part"
         /\ UNCHANGED nonRegVars /\ UNCHANGED <<endpoints, by_image, by_kind, now>>

\* list_parts(kind, healthy_only); kind = "None" is the default kind=None,
\* which lists every part.
list_parts_result(kind, healthy_only) ==
  LET ids == IF kind = "None" THEN DOMAIN parts
             ELSE IF kind \in DOMAIN by_kind THEN by_kind[kind] ELSE {} IN
  IF \E i \in ids : i \notin DOMAIN parts
    THEN Raised("KeyError")
    ELSE LET ps == {parts[i] : i \in ids} IN
         List(IF healthy_only
                THEN {p \in ps : p.status = "UP" /\ is_fresh(p.last_heartbeat)}
                ELSE ps)

list_parts(kind, healthy_only) ==
  /\ ret' = list_parts_result(kind, healthy_only)
  /\ last_call' = "list_parts"
  /\ UNCHANGED nonRegVars /\ UNCHANGED <<endpoints, by_image, parts, by_kind, now>>

\* Time passes: monotonic() grows between calls.
Tick ==
  /\ now + TickStep <= MaxTime
  /\ now' = now + TickStep
  /\ UNCHANGED nonRegVars /\ UNCHANGED <<endpoints, by_image, parts, by_kind, last_call, ret>>

(***************************************************************************)
(* Selection algorithms (load-balancer/app/services/algorithms)            *)
(***************************************************************************)
\* A backend URL "http://{host}:{port}", kept as its host and port.
Url(host, port) == [host |-> host, port |-> port]

Backends == {Url(h, PortOf(i)) : h \in Hosts, i \in EndpointIds}

\* The candidate lists passed to pick: every list of at most MaxCandidates
\* backends, the empty list and lists with repetitions included.
CandidateLists == UNION {[1..n -> Backends] : n \in 0..MaxCandidates}

\* Python's order of two URL strings: the model's URLs share scheme and host
\* and have four-digit ports, so it is the order of their ports.
UrlLess(a, b) == a.port < b.port

\* hash(tuple(sorted(backends))), kept as the sorted tuple itself.
BackendsHash(backends) == [tuple |-> SortSeq(backends, UrlLess)]

\* A pick's result: the chosen backend, or None.
Chosen(b) == [backend |-> b]

AlgoNames == <<"round_robin", "least_connections", "weighted_round_robin">>

\* dict.get(k, default)
DictGet(d, k, default) == IF k \in DOMAIN d THEN d[k] ELSE default

\* BaseAlgorithm.record_request on one algorithm's counters (last_used is
\* written and never read, and is left out).
record_request(st, success) ==
  [request_count |-> st.request_count + 1,
   error_count |-> IF success THEN st.error_count ELSE st.error_count + 1]

\* BaseAlgorithm.reset
base_reset == [request_count |-> 0, error_count |-> 0]

\* RoundRobinAlgorithm.pick on state s: the new state and the result.
\* A pick that returns candidates[index mod N] and leaves the index where it is.
rr_pick_no_advance(s, backends) ==
  IF backends = << >>
    THEN [state |-> s, result |-> None]
    ELSE LET current_hash == BackendsHash(backends)
             index == IF current_hash # s.last_backends_hash THEN 0 ELSE s.index
         IN [state |-> [index |-> index, last_backends_hash |-> current_hash],
             result |-> Chosen(backends[(index % Len(backends)) + 1])]

\* RoundRobinAlgorithm.pick
rr_pick(s, backends) ==
  IF backends = << >>
    THEN [state |-> s, result |-> None]
    ELSE LET current_hash == BackendsHash(backends)
             index == IF current_hash # s.last_backends_hash THEN 0 ELSE s.index
         IN [state |-> [index |-> index + 1, last_backends_hash |-> current_hash],
             result |-> Chosen(backends[(index % Len(backends)) + 1])]

rr_reset == [index |-> 0, last_backends_hash |-> None]

\* A cleanup that expires nothing.
lc_cleanup_keeps_all(s, t) == s

\* LeastConnectionsAlgorithm._cleanup_expired_connections at time t
lc_cleanup(s, t) ==
  LET expired == {b \in DOMAIN s.last_request_time :
                    t - s.last_request_time[b] > CONNECTION_TIMEOUT}
  IN [connections |->
        [b \in DOMAIN s.connections \cup expired |->
           IF b \in expired THEN 0 ELSE s.connections[b]],
      last_request_time |->
        [b \in DOMAIN s.last_request_time \ expired |-> s.last_request_time[b]]]

\* The last candidate, in list order, with the fewest connections.
RECURSIVE lc_best_last_on_ties(_, _, _, _, _)
lc_best_last_on_ties(conn, backends, k, best, min_connections) ==
  IF k > Len(backends)
    THEN best
    ELSE LET c == DictGet(conn, backends[k], 0) IN
         IF best = None \/ c <= min_connections
           THEN lc_best_last_on_ties(conn, backends, k + 1, Chosen(backends[k]), c)
           ELSE lc_best_last_on_ties(conn, backends, k + 1, best, min_connections)

\* The first candidate, in list order, with the fewest connections; conn is
\* the defaultdict read, 0 for a backend without entry.
RECURSIVE lc_best(_, _, _, _, _)
lc_best(conn, backends, k, best, min_connections) ==
  IF k > Len(backends)
    THEN best
    ELSE LET c == DictGet(conn, backends[k], 0) IN
         IF best = None \/ c < min_connections
           THEN lc_best(conn, backends, k + 1, Chosen(backends[k]), c)
           ELSE lc_best(conn, backends, k + 1, best, min_connections)

\* LeastConnectionsAlgorithm.pick at time t
lc_pick(s, backends, t) ==
  IF backends = << >>
    THEN [state |-> s, result |-> None]
    ELSE LET c == lc_cleanup(s, t)
             \* reading self._connections[backend] enters the backend with 0
             read == [b \in DOMAIN c.connections \cup {backends[k] : k \in 1..Len(backends)} |->
                        DictGet(c.connections, b, 0)]
             best == lc_best(read, backends, 1, None, 0)
         IN [state |-> [connections |-> [read EXCEPT ![best.backend] = @ + 1],
                        last_request_time |->
                          [b \in DOMAIN c.last_request_time \cup {best.backend} |->
                             IF b = best.backend THEN t ELSE c.last_request_time[b]]],
             result |-> best]

\* A release that decrements the counter of every known backend, also at zero.
lc_release_connection_unclamped(s, backend) ==
  IF backend \in DOMAIN s.connections
    THEN [s EXCEPT !.connections[backend] = @ - 1]
    ELSE s

\* LeastConnectionsAlgorithm.release_connection
lc_release_connection(s, backend) ==
  IF backend \in DOMAIN s.connections /\ s.connections[backend] > 0
    THEN [s EXCEPT !.connections[backend] = @ - 1]
    ELSE s

lc_reset == [connections |-> << >>, last_request_time |-> << >>]

Max(a, b) == IF a >= b THEN a ELSE b

\* WeightedRoundRobinAlgorithm._get_backend_weight: the port is the text after
\* the URL's last ':', up to a '/'; every URL of the model has one.
get_backend_weight(backend) == Max(1, 10 - (backend.port % 10))

\* WeightedRoundRobinAlgorithm._reset_weights: clear, then one derived
\* weight per candidate.
reset_weights(backends) ==
  [b \in {backends[k] : k \in 1..Len(backends)} |-> get_backend_weight(b)]

\* The first candidate, in list order, with the highest current weight above
\* max_weight (which starts at -1); None when no weight is above -1.
RECURSIVE wrr_best(_, _, _, _, _)
wrr_best(weights, backends, k, best, max_weight) ==
  IF k > Len(backends)
    THEN best
    ELSE LET w == DictGet(weights, backends[k], 0) IN
         IF w > max_weight
           THEN wrr_best(weights, backends, k + 1, Chosen(backends[k]), w)
           ELSE wrr_best(weights, backends, k + 1, best, max_weight)

\* A pick that re-derives the weights as soon as one weight is used up.
wrr_pick_early_reset(s, backends) ==
  IF backends = << >>
    THEN [state |-> s, result |-> None]
    ELSE LET current_hash == BackendsHash(backends)
             changed == current_hash # s.last_backends_hash
             w0 == IF changed THEN reset_weights(backends) ELSE s.current_weights
             best == wrr_best(w0, backends, 1, None, -1)
         IN IF best = None
              THEN [state |-> [current_weights |-> w0, last_backends_hash |-> current_hash],
                    result |-> None]
              ELSE IF best.backend \notin DOMAIN w0
                THEN [state |-> [current_weights |-> w0, last_backends_hash |-> current_hash],
                      result |-> Raised("KeyError")]
                ELSE LET w1 == [w0 EXCEPT ![best.backend] = @ - 1]
                         w2 == IF \E b \in DOMAIN w1 : w1[b] <= 0
                                 THEN reset_weights(backends) ELSE w1
                     IN [state |-> [current_weights |-> w2, last_backends_hash |-> current_hash],
                         result |-> best]

\* WeightedRoundRobinAlgorithm.pick
wrr_pick(s, backends) ==
  IF backends = << >>
    THEN [state |-> s, result |-> None]
    ELSE LET current_hash == BackendsHash(backends)
             changed == current_hash # s.last_backends_hash
             w0 == IF changed THEN reset_weights(backends) ELSE s.current_weights
             best == wrr_best(w0, backends, 1, None, -1)
         IN IF best = None
              THEN [state |-> [current_weights |-> w0, last_backends_hash |-> current_hash],
                    result |-> None]
              ELSE IF best.backend \notin DOMAIN w0
                THEN [state |-> [current_weights |-> w0, last_backends_hash |-> current_hash],
                      result |-> Raised("KeyError")]
                ELSE LET w1 == [w0 EXCEPT ![best.backend] = @ - 1]
                         w2 == IF \A b \in DOMAIN w1 : w1[b] <= 0
                                 THEN reset_weights(backends) ELSE w1
                     IN [state |-> [current_weights |-> w2, last_backends_hash |-> current_hash],
                         result |-> best]

\* WeightedRoundRobinAlgorithm.set_backend_weight
wrr_set_backend_weight(s, backend, weight) ==
  IF weight > 0
    THEN [s EXCEPT !.current_weights = DictSet(s.current_weights, backend, weight)]
    ELSE s

wrr_reset == [current_weights |-> << >>, last_backends_hash |-> None]

(***************************************************************************)
(* Adaptive Picker (load-balancer/app/services/picker.py)                  *)
(***************************************************************************)
NumAlgorithms == Len(AlgoNames)

\* sum(algo.request_count for algo in self._algorithms)
total_requests(st) ==
  st["round_robin"].request_count + st["least_connections"].request_count
    + st["weighted_round_robin"].request_count

\* Picker._force_exploration: the picker state after it
force_exploration(p, st) ==
  IF total_requests(st) < min_requests_for_switch * NumAlgorithms
    THEN LET counter == p.exploration_counter + 1
             desired_algo == (counter \div min_requests_for_switch) % NumAlgorithms
         IN [p EXCEPT !.exploration_counter = counter,
                      !.current_algorithm_index = desired_algo]
    ELSE p

\* Picker._calculate_algorithm_score: success_rate - error_rate, which is
\* 1 - 2 * error_count / request_count (1 when nothing was recorded), kept as
\* the fraction num / den with den > 0 and compared without rounding.
calculate_algorithm_score(a) ==
  IF a.request_count = 0
    THEN [num |-> 1, den |-> 1]
    ELSE [num |-> a.request_count - 2 * a.error_count, den |-> a.request_count]

\* score < 0.8
ScoreBelowThreshold(x) == 5 * x.num < 4 * x.den

\* x > y + 0.05
ScoreBeatsByMargin(x, y) == 20 * x.num * y.den > 20 * y.num * x.den + x.den * y.den

\* A scan that also takes an algorithm with fewer than
\* min_requests_for_switch requests.
RECURSIVE best_algorithm_any_samples(_, _, _, _)
best_algorithm_any_samples(st, i, best_algo_index, best_score) ==
  IF i >= NumAlgorithms
    THEN best_algo_index
    ELSE LET score == calculate_algorithm_score(st[AlgoNames[i + 1]])
         IN IF ScoreBeatsByMargin(score, best_score)
              THEN best_algorithm_any_samples(st, i + 1, i, score)
              ELSE best_algorithm_any_samples(st, i + 1, best_algo_index, best_score)

\* The loop of lines 119-124 from index i on: the best index found.
RECURSIVE best_algorithm(_, _, _, _)
best_algorithm(st, i, best_algo_index, best_score) ==
  IF i >= NumAlgorithms
    THEN best_algo_index
    ELSE LET a == st[AlgoNames[i + 1]]
             score == calculate_algorithm_score(a)
         IN IF a.request_count >= min_requests_for_switch
               /\ ScoreBeatsByMargin(score, best_score)
              THEN best_algorithm(st, i + 1, i, score)
              ELSE best_algorithm(st, i + 1, best_algo_index, best_score)

\* An evaluation without the branch for a poor score: the active algorithm
\* changes only to one that scores better by the margin.
maybe_switch_algorithm_regular_only(p, st, t) ==
  IF t - p.last_evaluation < EVALUATION_WINDOW
    THEN p
    ELSE LET cur == p.current_algorithm_index
             current_algo == st[AlgoNames[cur + 1]]
             current_score == calculate_algorithm_score(current_algo)
             q == [p EXCEPT !.last_evaluation = t]
         IN IF current_algo.request_count >= min_requests_for_switch
              THEN IF ScoreBelowThreshold(current_score)
                     THEN [q EXCEPT !.current_algorithm_index =
                                      best_algorithm(st, 0, cur, current_score)]
                     ELSE [q EXCEPT !.current_algorithm_index =
                                      best_algorithm(st, 0, cur, current_score)]
              ELSE q

\* An evaluation that runs at every pick, whatever the time since the last one.
maybe_switch_algorithm_every_pick(p, st, t) ==
  LET cur == p.current_algorithm_index
      current_algo == st[AlgoNames[cur + 1]]
      current_score == calculate_algorithm_score(current_algo)
      q == [p EXCEPT !.last_evaluation = t]
  IN IF current_algo.request_count >= min_requests_for_switch
       THEN IF ScoreBelowThreshold(current_score)
              THEN [q EXCEPT !.current_algorithm_index = IF cur = 0 THEN 1 ELSE 0]
              ELSE [q EXCEPT !.current_algorithm_index =
                               best_algorithm(st, 0, cur, current_score)]
       ELSE q

\* Picker._maybe_switch_algorithm at time t: the picker state after it
maybe_switch_algorithm(p, st, t) ==
  IF t - p.last_evaluation < EVALUATION_WINDOW
    THEN p
    ELSE LET cur == p.current_algorithm_index
             current_algo == st[AlgoNames[cur + 1]]
             current_score == calculate_algorithm_score(current_algo)
             q == [p EXCEPT !.last_evaluation = t]
         IN IF current_algo.request_count >= min_requests_for_switch
              THEN IF ScoreBelowThreshold(current_score)
                     \* the first index other than the current one
                     THEN [q EXCEPT !.current_algorithm_index = IF cur = 0 THEN 1 ELSE 0]
                     ELSE [q EXCEPT !.current_algorithm_index =
                                      best_algorithm(st, 0, cur, current_score)]
              ELSE q

\* current_algo.pick(backends) of algorithm i on the algorithms' states a
\* (a record of rr, lc, wrr) at time t: the new states and the result.
algorithm_pick(i, a, backends, t) ==
  IF i = 0
    THEN LET r == rr_pick(a.rr, backends) IN
         [algos |-> [a EXCEPT !.rr = r.state], result |-> r.result]
    ELSE IF i = 1
      THEN LET r == lc_pick(a.lc, backends, t) IN
           [algos |-> [a EXCEPT !.lc = r.state], result |-> r.result]
      ELSE LET r == wrr_pick(a.wrr, backends) IN
           [algos |-> [a EXCEPT !.wrr = r.state], result |-> r.result]

\* Picker.pick at time t on the picker state p, the counters st and the
\* algorithms' states a: all three after the call, and the result.
picker_pick(p, st, a, backends, t) ==
  IF backends = << >>
    THEN [picker |-> p, stats |-> st, algos |-> a, result |-> None]
    ELSE LET p1 == force_exploration(p, st)
             p2 == maybe_switch_algorithm(p1, st, t)
             cur == p2.current_algorithm_index
             name == AlgoNames[cur + 1]
             r == algorithm_pick(cur, a, backends, t)
         IN IF "backend" \in DOMAIN r.result
              THEN [picker |-> [p2 EXCEPT !.last_backend_choice =
                                  DictSet(@, r.result.backend, name)],
                    stats |-> [st EXCEPT ![name] = record_request(@, TRUE)],
                    algos |-> r.algos,
                    result |-> r.result]
              ELSE [picker |-> p2, stats |-> st, algos |-> r.algos, result |-> r.result]

\* Picker.record_backend_result: the counters after it
record_backend_result(p, st, backend, success) ==
  IF backend \in DOMAIN p.last_backend_choice
    THEN [st EXCEPT ![p.last_backend_choice[backend]] = record_request(@, success)]
    ELSE st

\* The load balancer's objects after construction (picker.py 22-34 and the
\* algorithms' __init__), the clock at 0.
SelectionInit ==
  /\ rr = rr_reset
  /\ lc = lc_reset
  /\ wrr = wrr_reset
  /\ stats = [n \in {AlgoNames[k] : k \in 1..NumAlgorithms} |-> base_reset]
  /\ picker = [current_algorithm_index |-> 0, last_evaluation |-> 0,
               last_backend_choice |-> << >>, exploration_counter |-> 0]
  /\ lb_now = 0

(***************************************************************************)
(* Calls on a WeightedRoundRobinAlgorithm object.                          *)
(***************************************************************************)
WRR_pick(backends) ==
  LET r == wrr_pick(wrr, backends) IN
  /\ wrr' = r.state
  /\ ret' = r.result
  /\ last_call' = "WeightedRoundRobinAlgorithm.pick"
  /\ UNCHANGED <<rr, lc, stats, picker, lb_now, req>> /\ UNCHANGED nonLbVars

WRR_set_backend_weight(backend, weight) ==
  /\ wrr' = wrr_set_backend_weight(wrr, backend, weight)
  /\ ret' = None
  /\ last_call' = "WeightedRoundRobinAlgorithm.set_backend_weight"
  /\ UNCHANGED <<rr, lc, stats, picker, lb_now, req>> /\ UNCHANGED nonLbVars

WRR_reset ==
  /\ wrr' = wrr_reset
  /\ stats' = [stats EXCEPT !["weighted_round_robin"] = base_reset]
  /\ ret' = None
  /\ last_call' = "WeightedRoundRobinAlgorithm.reset"
  /\ UNCHANGED <<rr, lc, picker, lb_now, req>> /\ UNCHANGED nonLbVars

\* Registry.__init__: four empty dicts.
RegistryInit ==
  /\ endpoints = << >>
  /\ by_image = << >>
  /\ parts = << >>
  /\ by_kind = << >>
  /\ now = 0

RegistryNext ==
  \/ \E ep \in EndpointIn : upsert(ep)
  \/ \E i \in EndpointIds : deregister(i)
  \/ \E i \in EndpointIds, s \in Status : set_status(i, s)
  \/ \E i \in EndpointIds : heartbeat(i)
  \/ \E g \in ImageIds, h \in BOOLEAN : list_by_image(g, h)
  \/ \E p \in SystemPartIn : upsert_part(p)
  \/ \E i \in PartIds : deregister_part(i)
  \/ \E i \in PartIds, s \in Status : set_part_status(i, s)
  \/ \E i \in PartIds : heartbeat_part(i)
  \/ \E k \in Kinds \cup {"None"}, h \in BOOLEAN : list_parts(k, h)
  \/ Tick

\* poll_parts_loop was created as a task by _startup (main.py:23) and is in
\* its first sleep; no cycle has run.
PollerInit ==
  [pc |-> "startup", cycle |-> 0, snapshot |-> {}, pending |-> {},
   written |-> << >>, error |-> FALSE]

\* No thread is in a call, and no batch of concurrent calls has started.
Threads == {"t1", "t2"}
ThreadsInit ==
  [base |-> None, batches |-> 0, t |-> [x \in Threads |-> [pc |-> "idle"]]]

\* No call of forward is in flight.
ForwardInit == [pc |-> "idle"]

Init ==
  /\ RegistryInit
  /\ last_call = "init"
  /\ ret = None
  /\ SelectionInit
  /\ req = [pc |-> "idle"]
  /\ poll = PollerInit
  /\ fwd = ForwardInit
  /\ thr = ThreadsInit

SpecRegistry == Init /\ [][RegistryNext]_vars

(***************************************************************************)
(* Calls on a RoundRobinAlgorithm and on a LeastConnectionsAlgorithm       *)
(* object, calls on the Picker, and the load balancer's clock.             *)
(***************************************************************************)
RR_pick(backends) ==
  LET r == rr_pick(rr, backends) IN
  /\ rr.index < MaxIndex
  /\ rr' = r.state
  /\ ret' = r.result
  /\ last_call' = "RoundRobinAlgorithm.pick"
  /\ UNCHANGED <<lc, wrr, stats, picker, lb_now, req>> /\ UNCHANGED nonLbVars

RR_reset ==
  /\ rr' = rr_reset
  /\ stats' = [stats EXCEPT !["round_robin"] = base_reset]
  /\ ret' = None
  /\ last_call' = "RoundRobinAlgorithm.reset"
  /\ UNCHANGED <<lc, wrr, picker, lb_now, req>> /\ UNCHANGED nonLbVars

LC_pick(backends) ==
  LET r == lc_pick(lc, backends, lb_now) IN
  /\ \A b \in DOMAIN lc.connections : lc.connections[b] < MaxConnections
  /\ lc' = r.state
  /\ ret' = r.result
  /\ last_call' = "LeastConnectionsAlgorithm.pick"
  /\ UNCHANGED <<rr, wrr, stats, picker, lb_now, req>> /\ UNCHANGED nonLbVars

LC_release_connection(backend) ==
  /\ lc' = lc_release_connection(lc, backend)
  /\ ret' = None
  /\ last_call' = "LeastConnectionsAlgorithm.release_connection"
  /\ UNCHANGED <<rr, wrr, stats, picker, lb_now, req>> /\ UNCHANGED nonLbVars

LC_reset ==
  /\ lc' = lc_reset
  /\ stats' = [stats EXCEPT !["least_connections"] = base_reset]
  /\ ret' = None
  /\ last_call' = "LeastConnectionsAlgorithm.reset"
  /\ UNCHANGED <<rr, wrr, picker, lb_now, req>> /\ UNCHANGED nonLbVars

\* Picker.pick, called while the request counts sum to less than limit.
Picker_pick_within(backends, limit) ==
  LET r == picker_pick(picker, stats, [rr |-> rr, lc |-> lc, wrr |-> wrr], backends, lb_now) IN
  /\ total_requests(stats) < limit
  /\ picker' = r.picker
  /\ stats' = r.stats
  /\ rr' = r.algos.rr
  /\ lc' = r.algos.lc
  /\ wrr' = r.algos.wrr
  /\ ret' = r.result
  /\ last_call' = "Picker.pick"
  /\ UNCHANGED <<lb_now, req>> /\ UNCHANGED nonLbVars

Picker_pick(backends) == Picker_pick_within(backends, MaxRequests)

\* Picker.record_backend_result, called while the request counts sum to less
\* than limit.
Picker_record_backend_result_within(backend, success, limit) ==
  /\ total_requests(stats) < limit
  /\ stats' = record_backend_result(picker, stats, backend, success)
  /\ ret' = None
  /\ last_call' = "Picker.record_backend_result"
  /\ UNCHANGED <<rr, lc, wrr, picker, lb_now, req>> /\ UNCHANGED nonLbVars

Picker_record_backend_result(backend, success) ==
  Picker_record_backend_result_within(backend, success, MaxRequests)

\* time.time() grows between calls.
LbTickUntil(limit) ==
  /\ lb_now + LbTickStep <= limit
  /\ lb_now' = lb_now + LbTickStep
  /\ UNCHANGED <<rr, lc, wrr, stats, picker, req, last_call, ret>> /\ UNCHANGED nonLbVars

LbTick == LbTickUntil(MaxLbTime)

WRRNext ==
  \/ \E bs \in CandidateLists : WRR_pick(bs)
  \/ \E b \in Backends, w \in 0..MaxWeight : WRR_set_backend_weight(b, w)
  \/ WRR_reset

SpecWRR == Init /\ [][WRRNext]_vars

(***************************************************************************)
(* Routing (load-balancer/app/api/routes.py) and the discovery client      *)
(* (load-balancer/app/services/discovery_client.py)                        *)
(***************************************************************************)
\* An HTTP response of the load balancer.
HttpError(status, detail) == [status |-> status, detail |-> detail]

\* RedirectResponse(url=target_url, status_code=307): target_url is the
\* backend's base URL joined with the request's path (lines 70-74).
RedirectResponse(target_base, path) ==
  [status |-> 307, location |-> [base |-> target_base, path |-> path]]

\* What the backend at url answers to a request for path: the provider of
\* the connectivity test answers 200 with its own JSON body.
UpstreamResponse(url, path) ==
  [status |-> 200, body |-> [provider |-> url, path |-> path]]

\* to_url of _normalize_endpoints on one JSON object: its "url", or
\* http://{host}:{port} made of its "host" and "port"; None otherwise.
to_url(item) ==
  IF "url" \in DOMAIN item
    THEN Chosen(item.url)
    ELSE IF "host" \in DOMAIN item /\ "port" \in DOMAIN item
           /\ item.host # "" /\ item.port # 0
      THEN Chosen(Url(item.host, item.port))
      ELSE None

\* JSON values: a list, an object (a dict), a string.  The elements of a list
\* are objects, given as records, or strings.
JList(items) == [list |-> items]
JDict(d) == [dict |-> d]
JStr(x) == [str |-> x]

\* isinstance(it, dict) on an element of a list
is_dict(it) == "str" \notin DOMAIN it

\* The loops of lines 46-49 and 54-57: the URLs of the elements that are
\* objects to_url recognises, in list order.
RECURSIVE normalize_items(_)
normalize_items(items) ==
  IF items = << >>
    THEN << >>
    ELSE LET u == IF is_dict(Head(items)) THEN to_url(Head(items)) ELSE None IN
         (IF u = None THEN << >> ELSE <<u.backend>>) \o normalize_items(Tail(items))

\* _normalize_endpoints (lines 24-59): an object is read through its
\* "backends" list, or else as one element; a list through its elements;
\* anything else gives no URL.
normalize_endpoints(payload) ==
  IF "dict" \in DOMAIN payload
    THEN IF "backends" \in DOMAIN payload.dict /\ "list" \in DOMAIN payload.dict.backends
           THEN normalize_items(payload.dict.backends.list)
           ELSE LET u == to_url(payload.dict) IN
                IF u = None THEN << >> ELSE <<u.backend>>
    ELSE IF "list" \in DOMAIN payload
           THEN normalize_items(payload.list)
           ELSE << >>

\* The JSON lists that enumerate the set S of records: list_by_image returns
\* the records in the iteration order of a Python set.
Orderings(S) ==
  {f \in [1..Cardinality(S) -> S] : \A x \in S : \E k \in 1..Cardinality(S) : f[k] = x}

Idle == [pc |-> "idle"]

\* route_to_backend is entered (lines 45-58): discovery attempt 0 is next.
route_to_backend_begin(image_id, path) ==
  /\ req = Idle
  /\ total_requests(stats) < MaxRouted
  /\ req' = [pc |-> "fetch", image_id |-> image_id, path |-> path, i |-> 0, delay |-> 0]
  /\ UNCHANGED <<rr, lc, wrr, stats, picker, lb_now, last_call, ret>>
  /\ UNCHANGED nonLbVars

\* 2 ** n
RECURSIVE Pow2(_)
Pow2(n) == IF n = 0 THEN 1 ELSE 2 * Pow2(n - 1)

\* A failed attempt that raises at once, without backoff or further attempt.
attempt_failed_gives_up ==
  /\ req' = Idle
  /\ ret' = HttpError(500, "RuntimeError: Failed to get healthy backends")
  /\ last_call' = "route_to_backend"
  /\ UNCHANGED <<rr, lc, wrr, stats, picker, lb_now>>

\* Attempt i of healthy_backends failed (an exception of client.get or of
\* resp.json(), or a non-200 response): asyncio.sleep(backoff * 2 ** i) is
\* entered, the delay in milliseconds.
attempt_failed ==
  /\ req' = [req EXCEPT !.pc = "sleep", !.delay = BACKOFF_MS * Pow2(req.i)]
  /\ UNCHANGED <<rr, lc, wrr, stats, picker, lb_now, last_call, ret>>

\* asyncio.sleep returns: the next attempt, or after the last one RuntimeError,
\* which route_to_backend does not catch: the caller gets the framework's 500.
backoff_elapsed ==
  /\ req.pc = "sleep"
  /\ IF req.i < RETRIES
       THEN /\ req' = [req EXCEPT !.pc = "fetch", !.i = @ + 1, !.delay = 0]
            /\ UNCHANGED <<rr, lc, wrr, stats, picker, lb_now, last_call, ret>>
       ELSE /\ req' = Idle
            /\ ret' = HttpError(500, "RuntimeError: Failed to get healthy backends")
            /\ last_call' = "route_to_backend"
            /\ UNCHANGED <<rr, lc, wrr, stats, picker, lb_now>>
  /\ UNCHANGED nonLbVars

\* healthy_backends returned backends: lines 59-77 of route_to_backend.
route_respond(backends) ==
  IF backends = << >>
    THEN /\ ret' = HttpError(503, "No healthy backends")
         /\ UNCHANGED <<rr, lc, wrr, stats, picker>>
    ELSE LET r == picker_pick(picker, stats, [rr |-> rr, lc |-> lc, wrr |-> wrr],
                              backends, lb_now)
         IN /\ picker' = r.picker
            /\ stats' = r.stats
            /\ rr' = r.algos.rr
            /\ lc' = r.algos.lc
            /\ wrr' = r.algos.wrr
            /\ ret' = IF "backend" \in DOMAIN r.result
                        THEN RedirectResponse(r.result.backend, req.path)
                        ELSE HttpError(502, "Backend selection failed")

\* The answer of service discovery to GET /registry/images/{image_id}/
\* endpoints?healthy=true: 200 with the listing, or 500 when
\* list_by_image raises.
sd_list_endpoints(image_id) ==
  LET r == list_by_image_result(image_id, TRUE) IN
  IF "list" \in DOMAIN r
    THEN [status_code |-> 200, records |-> r.list]
    ELSE [status_code |-> 500, records |-> {}]

\* One attempt of DiscoveryClient.healthy_backends whose request fails
\* before a response arrives (connection error or timeout).
healthy_backends_attempt_error ==
  /\ req.pc = "fetch"
  /\ attempt_failed
  /\ UNCHANGED nonLbVars

\* One attempt of DiscoveryClient.healthy_backends that gets a response;
\* json_ok tells whether resp.json() can decode its body (the body of an
\* intermediary's 200 page cannot be decoded, and resp.json() raises).
healthy_backends_attempt_response(json_ok) ==
  /\ req.pc = "fetch"
  /\ LET resp == sd_list_endpoints(req.image_id) IN
     IF resp.status_code = 200 /\ json_ok
       THEN /\ \E payload \in Orderings(resp.records) :
                 route_respond(normalize_endpoints(JList(payload)))
            /\ req' = Idle
            /\ last_call' = "route_to_backend"
            /\ UNCHANGED lb_now
       ELSE attempt_failed
  /\ UNCHANGED nonLbVars

RoutingNext ==
  \/ \E ep \in EndpointIn : upsert(ep)
  \/ \E i \in EndpointIds : deregister(i)
  \/ \E i \in EndpointIds, st \in Status : set_status(i, st)
  \/ \E g \in ImageIds, path \in Paths : route_to_backend_begin(g, path)
  \/ healthy_backends_attempt_error
  \/ \E json_ok \in BOOLEAN : healthy_backends_attempt_response(json_ok)
  \/ backoff_elapsed

SpecRouting == Init /\ [][RoutingNext]_vars

RRNext ==
  \/ \E bs \in CandidateLists : RR_pick(bs)
  \/ RR_reset

SpecRR == Init /\ [][RRNext]_vars

LCNext ==
  \/ \E bs \in CandidateLists : LC_pick(bs)
  \/ \E b \in Backends : LC_release_connection(b)
  \/ LC_reset
  \/ LbTick

SpecLC == Init /\ [][LCNext]_vars

PickerNext ==
  \/ \E bs \in CandidateLists : Picker_pick(bs)
  \/ \E b \in Backends, ok \in BOOLEAN : Picker_record_backend_result(b, ok)
  \/ LbTick

SpecPicker == Init /\ [][PickerNext]_vars

(***************************************************************************)
(* Claims about the Registry, checked under SpecRegistry.                  *)
(***************************************************************************)
\* The buckets of an index that hold id i.
BucketsOf(index, i) == {g \in DOMAIN index : i \in index[g]}

\* C1: every stored Endpoint id is in exactly one workload bucket, the bucket
\* of its record's current workload_id, and every stored SystemPart id is in
\* exactly one kind bucket, the bucket of its record's current kind.
C1_IndexedUnderCurrentGroupOnly ==
  /\ \A i \in DOMAIN endpoints : BucketsOf(by_image, i) = {endpoints[i].image_id}
  /\ \A i \in DOMAIN parts : BucketsOf(by_kind, i) = {parts[i].kind}

\* C1's case: an upsert has re-registered an existing id under another workload.
C1_ReRegisteredElsewhere ==
  /\ last_call = "upsert"
  /\ \E i \in DOMAIN endpoints : \E g \in DOMAIN by_image :
       i \in by_image[g] /\ g # endpoints[i].image_id

Stale(p) == p.status = "UP" /\ now - p.last_heartbeat > HEARTBEAT_TTL_SEC

AsEndpointIn(r) ==
  [id |-> r.id, image_id |-> r.image_id, host |-> r.host, port |-> r.port,
   status |-> r.status]

\* C7: an upsert whose id and fields are those of the stored record leaves
\* one record for the id, the id in its group bucket, and the group index and
\* every other record as they were.
C7_UpsertIdempotent ==
  [][\A ep \in EndpointIn :
       (/\ last_call' = "upsert"
        /\ ep.id \in DOMAIN endpoints
        /\ AsEndpointIn(endpoints[ep.id]) = ep
        /\ upsert(ep))
       => /\ DOMAIN endpoints' = DOMAIN endpoints
          /\ AsEndpointIn(endpoints'[ep.id]) = ep
          /\ BucketsOf(by_image', ep.id) = BucketsOf(by_image, ep.id)
          /\ ep.image_id \in BucketsOf(by_image', ep.id)
          /\ by_image' = by_image
          /\ \A o \in DOMAIN endpoints \ {ep.id} : endpoints'[o] = endpoints[o]]_vars

\* C7's case: an upsert repeated a registration made at an earlier time, while
\* another endpoint shares the bucket.
C7_RepeatedUpsert ==
  /\ last_call = "upsert"
  /\ now > 0
  /\ ret.rec.last_heartbeat = now
  /\ \E o \in DOMAIN endpoints :
       /\ o # ret.rec.id
       /\ endpoints[o].last_heartbeat < now
       /\ by_image[ret.rec.image_id] = {o, ret.rec.id}

NoEmptyBucket(index) == \A g \in DOMAIN index : index[g] # {}

\* What deregister promises for one index: d and index are the record map and
\* the group index before the call, d2 and index2 after it, key the group key
\* of the removed record.
DeregisterPost(d, index, d2, index2, r, i, key) ==
  IF i \in DOMAIN d
    THEN /\ r = Bool(TRUE)
         /\ DOMAIN d2 = DOMAIN d \ {i}
         /\ \A o \in DOMAIN d2 : d2[o] = d[o]
         /\ IF index[key] \ {i} = {}
              THEN key \notin DOMAIN index2
              ELSE key \in DOMAIN index2 /\ index2[key] = index[key] \ {i}
         /\ \A g \in DOMAIN index \ {key} : g \in DOMAIN index2 /\ index2[g] = index[g]
    ELSE /\ r = Bool(FALSE)
         /\ d2 = d
         /\ index2 = index

\* C8: deregister returns true exactly when the record existed; the record is
\* then removed and its bucket pruned when it becomes empty; an absent id
\* returns false and changes nothing; no bucket is ever empty.
C8_DeregisterPrunes ==
  /\ [](NoEmptyBucket(by_image) /\ NoEmptyBucket(by_kind))
  /\ [][\A i \in EndpointIds : (last_call' = "deregister" /\ deregister(i)) =>
          DeregisterPost(endpoints, by_image, endpoints', by_image', ret', i,
                         IF i \in DOMAIN endpoints THEN endpoints[i].image_id ELSE "None")]_vars
  /\ [][\A i \in PartIds : (last_call' = "deregister_part" /\ deregister_part(i)) =>
          DeregisterPost(parts, by_kind, parts', by_kind', ret', i,
                         IF i \in DOMAIN parts THEN parts[i].kind ELSE "None")]_vars

\* C8's case: a deregister removed the last endpoint of a bucket while another
\* bucket stays.
C8_LastOfBucketRemoved ==
  /\ last_call = "deregister"
  /\ ret = Bool(TRUE)
  /\ Cardinality(DOMAIN endpoints) = 1
  /\ Cardinality(DOMAIN by_image) = 1

\* What set_status promises for one record map.
SetStatusPost(d, d2, r, i, status) ==
  IF i \in DOMAIN d
    THEN /\ DOMAIN d2 = DOMAIN d
         /\ d2[i] = [d[i] EXCEPT !.status = status, !.last_heartbeat = now]
         /\ \A o \in DOMAIN d \ {i} : d2[o] = d[o]
         /\ r = Rec(d2[i])
    ELSE /\ r = None
         /\ d2 = d

\* C9: set_status on an existing record stores the given status and the
\* current time as last_heartbeat and returns the record; on an absent id it
\* returns absent and leaves the registry as it was.
C9_SetStatus ==
  /\ [][\A i \in EndpointIds, s \in Status :
          (last_call' = "set_status" /\ set_status(i, s)) =>
          /\ SetStatusPost(endpoints, endpoints', ret', i, s)
          /\ UNCHANGED <<by_image, parts, by_kind>>]_vars
  /\ [][\A i \in PartIds, s \in Status :
          (last_call' = "set_part_status" /\ set_part_status(i, s)) =>
          /\ SetStatusPost(parts, parts', ret', i, s)
          /\ UNCHANGED <<by_kind, endpoints, by_image>>]_vars

\* C9's case: set_status changed the status of a record registered earlier.
C9_StatusSetLater ==
  /\ last_call = "set_status"
  /\ "rec" \in DOMAIN ret
  /\ ret.rec.status = "DOWN"
  /\ now > 0
  /\ ret.rec.last_heartbeat = now

\* What heartbeat promises for one record map.
HeartbeatPost(d, d2, r, i) ==
  IF i \in DOMAIN d
    THEN /\ DOMAIN d2 = DOMAIN d
         /\ d2[i] = [d[i] EXCEPT !.last_heartbeat = now]
         /\ \A o \in DOMAIN d \ {i} : d2[o] = d[o]
         /\ r = Rec(d2[i])
    ELSE /\ r = None
         /\ d2 = d

\* C10: heartbeat changes only the last_heartbeat of the addressed record: its
\* status and other fields, every other record and both group indexes stay as
\* they were.
C10_HeartbeatFrame ==
  /\ [][\A i \in EndpointIds : (last_call' = "heartbeat" /\ heartbeat(i)) =>
          /\ HeartbeatPost(endpoints, endpoints', ret', i)
          /\ UNCHANGED <<by_image, parts, by_kind>>]_vars
  /\ [][\A i \in PartIds : (last_call' = "heartbeat_part" /\ heartbeat_part(i)) =>
          /\ HeartbeatPost(parts, parts', ret', i)
          /\ UNCHANGED <<by_kind, endpoints, by_image>>]_vars

\* C10's case: a heartbeat refreshed a record that is DOWN or DEGRADED.
C10_HeartbeatOnDown ==
  /\ last_call = "heartbeat"
  /\ "rec" \in DOMAIN ret
  /\ ret.rec.status \in {"DOWN", "DEGRADED"}
  /\ now > 0
  /\ ret.rec.last_heartbeat = now

(***************************************************************************)
(* Claims about the selection algorithms.                                  *)
(***************************************************************************)
\* What a pick on the candidate list bs may return: one of its members, and
\* None only for the empty list.
PickResultOk(bs, r) ==
  IF bs = << >> THEN r = None ELSE r \in {Chosen(bs[k]) : k \in 1..Len(bs)}

\* C5: for Round-Robin, Least-Connections, Weighted Round-Robin and the
\* Picker, after any sequence of calls, pick on a non-empty candidate list
\* returns a member of the list, and it returns None only on the empty list.
C5_PickReturnsCandidate ==
  [][\A bs \in CandidateLists :
       (RR_pick(bs) \/ LC_pick(bs) \/ WRR_pick(bs) \/ Picker_pick(bs))
         => PickResultOk(bs, ret')]_vars

\* C5's case: a weight was set for a backend and a later pick on a non-empty
\* list of other backends returned None.
C5_PickReturnedNone ==
  /\ last_call = "WeightedRoundRobinAlgorithm.pick"
  /\ ret = None
  /\ "tuple" \in DOMAIN wrr.last_backends_hash
  /\ \A k \in 1..Len(wrr.last_backends_hash.tuple) :
       wrr.current_weights[wrr.last_backends_hash.tuple[k]] = -1
  /\ \E b \in DOMAIN wrr.current_weights : wrr.current_weights[b] > 0

\* The parts of C5 that hold: Round-Robin, Least-Connections and the Picker
\* driven through its own calls return a member of a non-empty list.
RRPickReturnsCandidate ==
  [][\A bs \in CandidateLists : RR_pick(bs) => PickResultOk(bs, ret')]_vars

LCPickReturnsCandidate ==
  [][\A bs \in CandidateLists : LC_pick(bs) => PickResultOk(bs, ret')]_vars

PickerPickReturnsCandidate ==
  [][\A bs \in CandidateLists : Picker_pick(bs) => PickResultOk(bs, ret')]_vars

(***************************************************************************)
(* Claims about routing, checked under SpecRouting.                        *)
(***************************************************************************)
\* The step in which the routing request for workload g gets its response.
RouteResponds(g) ==
  /\ last_call' = "route_to_backend"
  /\ req.pc \in {"fetch", "sleep"}
  /\ req.image_id = g
  /\ req'.pc = "idle"

\* The step in which a fetch fails: every attempt has failed and the last
\* backoff sleep is over.
FetchFails ==
  /\ req.pc = "sleep"
  /\ req.i = RETRIES
  /\ req'.pc = "idle"

\* The stored endpoints of workload g whose status is UP.
UpEndpoints(g) ==
  {i \in DOMAIN endpoints : endpoints[i].image_id = g /\ endpoints[i].status = "UP"}

\* C2: a routing request for a workload that has at least one healthy
\* endpoint is reverse-proxied: when discovery answers with a non-empty
\* listing, the response is the response of one of the listed backends
\* (its status and body), not a redirect.
C2_RoutingIsProxied ==
  [][\A g \in ImageIds :
       (/\ RouteResponds(g)
        /\ sd_list_endpoints(g).status_code = 200
        /\ sd_list_endpoints(g).records # {})
       => \E r \in sd_list_endpoints(g).records :
            ret' = UpstreamResponse(Url(r.host, r.port), req.path)]_vars

\* C2's case: a routing request was answered with a backend that is stored as UP.
C2_RoutedWithHealthyEndpoint ==
  /\ last_call = "route_to_backend"
  /\ ret.status = 307
  /\ \E i \in DOMAIN endpoints :
       /\ endpoints[i].status = "UP"
       /\ ret.location.base = Url(endpoints[i].host, endpoints[i].port)

\* C3: an endpoint stored as UP is in the healthy listing of its workload and
\* an endpoint stored as DOWN is not; and every routing request answered while
\* the workload has no UP endpoint gets 503.
C3_DownMeansNoRoute ==
  /\ [](\A i \in DOMAIN endpoints :
          LET l == list_by_image_result(endpoints[i].image_id, TRUE) IN
          /\ "list" \in DOMAIN l
          /\ endpoints[i] \in l.list <=> endpoints[i].status = "UP")
  /\ [][\A g \in ImageIds :
          (RouteResponds(g) /\ UpEndpoints(g) = {})
          => ret' = HttpError(503, "No healthy backends")]_vars

\* C3's case: a routing request was answered 503 while the only stored
\* endpoint was DOWN.
C3_RoutedAfterDown ==
  /\ last_call = "route_to_backend"
  /\ ret = HttpError(503, "No healthy backends")
  /\ \E i \in DOMAIN endpoints : endpoints[i].status = "DOWN"
  /\ \A g \in ImageIds : UpEndpoints(g) = {}

\* C4: when every discovery attempt of a fetch fails, the routing request
\* is answered with status 503.
C4_DiscoveryDownIs503 ==
  [][FetchFails => ret'.status = 503]_vars

\* C4's case: a routing request ended after all its discovery attempts failed.
C4_AllAttemptsFailed ==
  /\ last_call = "route_to_backend"
  /\ ret.status = 500

(***************************************************************************)
(* Claims about the listing of endpoints, checked under SpecRegistry.      *)
(***************************************************************************)
\* The ids of the bucket of workload g; none for an unknown workload.
BucketIds(g) == IF g \in DOMAIN by_image THEN by_image[g] ELSE {}

\* C11: list_by_image(g, healthy_only=true) returns exactly the endpoints of
\* the bucket of g whose status is UP, whatever their heartbeat age, and with
\* healthy_only=false every endpoint of the bucket; an unknown workload
\* yields the empty list.
C11_ListByImage ==
  [][\A g \in ImageIds, h \in BOOLEAN :
       (last_call' = "list_by_image" /\ list_by_image(g, h))
       => /\ "list" \in DOMAIN ret'
          /\ \A i \in BucketIds(g) :
               /\ i \in DOMAIN endpoints
               /\ (endpoints[i] \in ret'.list <=> (~h \/ endpoints[i].status = "UP"))
          /\ \A e \in ret'.list : e.id \in BucketIds(g) /\ endpoints[e.id] = e]_vars

\* C11's case: a healthy listing returned an UP endpoint whose heartbeat is
\* older than the TTL and left out another endpoint of the same bucket.
C11_ListedUpOnly ==
  /\ last_call = "list_by_image"
  /\ "list" \in DOMAIN ret
  /\ \E e \in ret.list :
       /\ now - e.last_heartbeat > HEARTBEAT_TTL_SEC
       /\ \E i \in by_image[e.image_id] :
            i \in DOMAIN endpoints /\ endpoints[i].status # "UP"
                                   /\ endpoints[i] \notin ret.list

(***************************************************************************)
(* Claims about Round-Robin, checked under SpecRR.                         *)
(***************************************************************************)
\* The candidate lists of N >= 1 distinct candidates.
DistinctLists ==
  {L \in CandidateLists :
     Len(L) > 0 /\ \A i, j \in 1..Len(L) : i # j => L[i] # L[j]}

\* The state of a RoundRobinAlgorithm after n consecutive calls pick(L) from
\* state s.
RECURSIVE rr_after(_, _, _)
rr_after(s, L, n) ==
  IF n = 0 THEN s ELSE rr_after(rr_pick(s, L).state, L, n - 1)

\* What the k-th (k = 1, 2, ...) of consecutive calls pick(L) returns, from
\* state s.
rr_nth(s, L, k) == rr_pick(rr_after(s, L, k - 1), L).result

\* C12: when every call passes the same list L of N distinct candidates, any
\* N consecutive picks return each candidate exactly once, each pick returns
\* the candidate that follows the previous pick's in L (cyclically), and the
\* k-th pick (k = 0, 1, ...) since the last reset returns L[k mod N].
C12_RoundRobinRotation ==
  \A L \in DistinctLists :
    /\ \A j \in 1..(MaxRun - Len(L) + 1) :
         {rr_nth(rr, L, j + d) : d \in 0..(Len(L) - 1)} = {Chosen(L[k]) : k \in 1..Len(L)}
    /\ \A j \in 1..(MaxRun - 1) : \A k \in 1..Len(L) :
         rr_nth(rr, L, j) = Chosen(L[k])
           => rr_nth(rr, L, j + 1) = Chosen(L[(k % Len(L)) + 1])
    /\ rr = rr_reset =>
         \A k \in 0..(MaxRun - 1) : rr_nth(rr, L, k + 1) = Chosen(L[(k % Len(L)) + 1])

\* C12's case: N = 2 picks in a row on a list of two distinct candidates have
\* just returned its first and then its second candidate.
C12_FullRotationDone ==
  /\ last_call = "RoundRobinAlgorithm.pick"
  /\ rr.index = 2
  /\ \E L \in DistinctLists :
       /\ Len(L) = 2
       /\ rr.last_backends_hash = BackendsHash(L)
       /\ ret \in {Chosen(L[1]), Chosen(L[2])}

(***************************************************************************)
(* Claims about Least-Connections, checked under SpecLC.                   *)
(***************************************************************************)
\* The open-connection counter of backend b: self._connections[b], 0 for a
\* backend without entry.
Connections(s, b) == DictGet(s.connections, b, 0)

\* C13: release_connection(backend) decrements that backend's counter by one
\* but never below zero (a release at zero, as in a double release or a
\* release without pick, leaves it at zero), it never changes the counter of
\* another backend, and no counter is negative in any reachable state.
C13_ReleaseClamped ==
  /\ [](\A b \in DOMAIN lc.connections : lc.connections[b] >= 0)
  /\ [][\A b \in Backends :
          (last_call' = "LeastConnectionsAlgorithm.release_connection"
             /\ LC_release_connection(b))
          => /\ Connections(lc', b) = Max(Connections(lc, b) - 1, 0)
             /\ \A o \in Backends \ {b} : Connections(lc', o) = Connections(lc, o)]_vars

\* C13's case: a release has just been made for a backend whose counter is
\* zero after an earlier pick, while another backend has open connections.
C13_ReleasedToZero ==
  /\ last_call = "LeastConnectionsAlgorithm.release_connection"
  /\ \E b \in DOMAIN lc.connections :
       /\ lc.connections[b] = 0
       /\ \E o \in DOMAIN lc.connections : lc.connections[o] > 0

(***************************************************************************)
(* Claims about Weighted Round-Robin, checked under SpecWRR.               *)
(***************************************************************************)
\* The state of a WeightedRoundRobinAlgorithm after n consecutive calls
\* pick(L) from state s.
RECURSIVE wrr_after(_, _, _)
wrr_after(s, L, n) ==
  IF n = 0 THEN s ELSE wrr_after(wrr_pick(s, L).state, L, n - 1)

\* What the k-th (k = 1, 2, ...) of consecutive calls pick(L) returns, from
\* state s.
wrr_nth(s, L, k) == wrr_pick(wrr_after(s, L, k - 1), L).result

\* The sum of the derived weights of the candidates L[k..].
RECURSIVE WeightSum(_, _)
WeightSum(L, k) ==
  IF k > Len(L) THEN 0 ELSE get_backend_weight(L[k]) + WeightSum(L, k + 1)

\* The weights of s are freshly derived for L when the next pick(L) derives
\* them (the candidates changed) or when they are the derived weights of L.
FreshWeights(s, L) ==
  \/ s.last_backends_hash # BackendsHash(L)
  \/ s.current_weights = reset_weights(L)

\* C14: for a list L of distinct candidates with derived weights w_1..w_n,
\* starting from freshly derived weights, the next w_1+...+w_n picks choose
\* candidate i exactly w_i times, and the weights are re-derived after the
\* last of these picks and after none of the earlier ones.
C14_WeightedCycle ==
  \A L \in DistinctLists :
    FreshWeights(wrr, L) =>
      /\ \A k \in 1..Len(L) :
           Cardinality({j \in 1..WeightSum(L, 1) :
                          wrr_nth(wrr, L, j) = Chosen(L[k])})
             = get_backend_weight(L[k])
      /\ \A j \in 1..(WeightSum(L, 1) - 1) :
           wrr_after(wrr, L, j).current_weights # reset_weights(L)
      /\ wrr_after(wrr, L, WeightSum(L, 1)).current_weights = reset_weights(L)

\* C14's case: a pick on a list of two candidates with different weights has
\* just ended a cycle: the weights are the derived ones again.
C14_CycleEnded ==
  /\ last_call = "WeightedRoundRobinAlgorithm.pick"
  /\ \E L \in DistinctLists :
       /\ Len(L) = 2
       /\ get_backend_weight(L[1]) # get_backend_weight(L[2])
       /\ wrr.last_backends_hash = BackendsHash(L)
       /\ wrr.current_weights = reset_weights(L)
       /\ ret = Chosen(L[2])

(***************************************************************************)
(* Claims about the adaptive Picker, checked under SpecPicker.             *)
(***************************************************************************)
\* Exploration is complete, algorithm A (an index) is active with at least
\* min_requests_for_switch recorded requests and a score below 0.8, and the
\* evaluation window has elapsed since the last evaluation.
PoorActive(A) ==
  /\ total_requests(stats) >= min_requests_for_switch * NumAlgorithms
  /\ picker.current_algorithm_index = A
  /\ stats[AlgoNames[A + 1]].request_count >= min_requests_for_switch
  /\ ScoreBelowThreshold(calculate_algorithm_score(stats[AlgoNames[A + 1]]))
  /\ lb_now - picker.last_evaluation >= EVALUATION_WINDOW

FetchRaised == HttpError(500, "RuntimeError: Failed to get healthy backends")

\* What holds of every step of a fetch, whatever ends an attempt: attempts
\* are numbered 0..RETRIES; an attempt ends in a return (no further attempt)
\* or in the backoff sleep of BACKOFF_MS * 2^i with nothing raised; a
\* non-200 response ends in the sleep; the sleep is followed by attempt i + 1
\* when there is one, and RuntimeError is raised only after the sleep that
\* follows attempt RETRIES.
RetrySteps ==
  /\ req.pc # "idle" => req.i \in 0..RETRIES
  /\ (req.pc = "fetch" /\ req' # req)
       => \/ /\ req'.pc = "idle"
             /\ last_call' = "route_to_backend"
             /\ ret' # FetchRaised
          \/ /\ req'.pc = "sleep"
             /\ req'.i = req.i
             /\ req'.delay = BACKOFF_MS * Pow2(req.i)
             /\ ret' = ret
  /\ (req.pc = "fetch" /\ req' # req /\ sd_list_endpoints(req.image_id).status_code # 200)
       => req'.pc = "sleep"
  /\ (req.pc = "sleep" /\ req' # req)
       => IF req.i < RETRIES
            THEN req'.pc = "fetch" /\ req'.i = req.i + 1 /\ ret' = ret
            ELSE req'.pc = "idle" /\ ret' = FetchRaised /\ last_call' = "route_to_backend"

\* The attempt's response is a 200 and the call returns: no further attempt,
\* and the caller answers from the normalized list (503 exactly when it is
\* empty).
ReturnsAt200 ==
  /\ req'.pc = "idle"
  /\ ret' # FetchRaised
  /\ (ret'.status = 503) <=> (sd_list_endpoints(req.image_id).records = {})

\* C16 as stated: healthy_backends makes at most RETRIES + 1 attempts; it
\* returns the normalized list at the first attempt that yields a 200 response,
\* whatever the body of that response, and makes no further attempt; a non-200
\* response or a transport error leads to the next attempt; it raises only after
\* all attempts have failed; the backoff after failed attempt i is
\* BACKOFF_MS * 2^i.
C16_ReturnsAtFirst200 ==
  [][/\ RetrySteps
     /\ \A json_ok \in BOOLEAN :
          (/\ req.pc = "fetch"
           /\ sd_list_endpoints(req.image_id).status_code = 200
           /\ healthy_backends_attempt_response(json_ok))
          => ReturnsAt200]_vars

\* C16 amended: as above, but the call returns at the first attempt that
\* yields a 200 response whose body decodes as JSON; a 200 response whose body
\* does not decode is a failed attempt like a non-200 one.
C16_ReturnsAtFirstDecodable200 ==
  [][/\ RetrySteps
     /\ (/\ req.pc = "fetch"
         /\ sd_list_endpoints(req.image_id).status_code = 200
         /\ healthy_backends_attempt_response(TRUE))
          => ReturnsAt200
     /\ (req.pc = "fetch" /\ healthy_backends_attempt_response(FALSE))
          => req'.pc = "sleep" /\ req'.delay = BACKOFF_MS * Pow2(req.i)]_vars

\* The last attempt of a fetch has failed: the call sleeps 4 * BACKOFF_MS.
C16_LastBackoff ==
  /\ req.pc = "sleep"
  /\ req.i = RETRIES
  /\ req.delay = 4 * BACKOFF_MS

(***************************************************************************)
(* Health poller (service-discovery/app/services/health.py) and its        *)
(* cancellation at shutdown (service-discovery/app/main.py)                *)
(***************************************************************************)
\* The parts registered while the poller runs.
PolledParts ==
  [id : PolledPartIds, kind : {"billing"}, url : PartUrls, status : {"UP", "DOWN"}]

\* What client.get(url, timeout=...) of a probe ends in: an exception (a
\* timeout, a refused connection) or a response with a status code and a body.
\* The bodies: a JSON object whose "status" is "ok" in some case, another JSON
\* object, a JSON list, a text holding "OK" that is no JSON, another such text.
ProbeBodies == {"json_ok", "json_other", "json_list", "text_ok", "text_other"}
ProbeOutcomes ==
  {[kind |-> "exception"]}
    \cup [kind : {"response"}, status_code : {200, 503}, body : ProbeBodies]

\* ok of _check_part, lines 20-29.  r.json().get raises AttributeError on a
\* JSON list, which the outer except turns into ok = False; a body that is no
\* JSON raises ValueError, and ok is whether "OK" is in the text.
probe_ok(o) ==
  IF o.kind = "exception"
    THEN FALSE
    ELSE IF o.status_code < 400
           THEN CASE o.body = "json_ok" -> TRUE
                  [] o.body = "json_other" -> FALSE
                  [] o.body = "json_list" -> FALSE
                  [] o.body = "text_ok" -> TRUE
                  [] o.body = "text_other" -> FALSE
           ELSE FALSE

\* The parts dict after set_part_status(part_id, status) (registry.py:90-97).
parts_after_set_part_status(part_id, status) ==
  IF part_id \notin DOMAIN parts
    THEN parts
    ELSE [parts EXCEPT ![part_id] = [@ EXCEPT !.status = status, !.last_heartbeat = now]]

\* An exception of the cycle that ends the task instead of being caught.
after_cycle_uncaught(raised) == IF raised THEN "crashed" ELSE "sleep"

\* Where the loop is after the try statement of a cycle, whether or not an
\* Exception was raised in it (lines 42-44): in asyncio.sleep(interval).
after_cycle(raised) == "sleep"

\* A sleep of the loop returns and a cycle starts (lines 35-41): the snapshot
\* list_parts(kind=None, healthy_only=False), an AsyncClient, one _check_part
\* task for each part that has a url, and gather when there is a task.  Without
\* a task the client is closed at once; close_raises tells whether closing it
\* raises.
poll_cycle_start(close_raises) ==
  /\ poll.pc \in {"startup", "sleep"}
  /\ LET snap == list_parts_result("None", FALSE).list
         tasks == {p.id : p \in {q \in snap : q.url # ""}} IN
     poll' = IF tasks = {}
               THEN [pc |-> after_cycle(close_raises),
                     cycle |-> (poll.cycle + 1) % MaxCycles,
                     snapshot |-> {}, pending |-> {}, written |-> << >>,
                     error |-> close_raises]
               ELSE [pc |-> "gather",
                     cycle |-> (poll.cycle + 1) % MaxCycles,
                     snapshot |-> tasks, pending |-> tasks,
                     written |-> [i \in tasks |-> << >>],
                     error |-> FALSE]
  /\ ret' = None
  /\ last_call' = "poll_parts_loop"
  /\ UNCHANGED regVars /\ UNCHANGED <<lbVars, fwd>>

\* The probe of part part_id ends with outcome o and _check_part calls
\* set_part_status (line 31).  With the last probe of the cycle gather returns,
\* the client is closed (close_raises: closing it raises) and the loop sleeps.
check_part_done(part_id, o, close_raises) ==
  /\ poll.pc = "gather"
  /\ part_id \in poll.pending
  /\ LET status == IF probe_ok(o) THEN "UP" ELSE "DOWN"
         rest == poll.pending \ {part_id} IN
     /\ parts' = parts_after_set_part_status(part_id, status)
     /\ poll' = [poll EXCEPT !.pending = rest,
                             !.written[part_id] = Append(@, status),
                             !.pc = IF rest = {} THEN after_cycle(close_raises) ELSE "gather",
                             !.error = (rest = {} /\ close_raises)]
  /\ ret' = None
  /\ last_call' = "_check_part"
  /\ UNCHANGED <<endpoints, by_image, by_kind, now>> /\ UNCHANGED <<lbVars, fwd>>

\* _shutdown (main.py:26-30): t.cancel().  CancelledError is thrown into the
\* task at the await it is suspended in, asyncio.sleep or gather; a cancelled
\* gather cancels its unfinished _check_part tasks, whose except Exception
\* does not catch CancelledError, and neither does the loop's.
shutdown ==
  /\ poll.pc \in {"startup", "sleep", "gather"}
  /\ poll' = [poll EXCEPT !.pc = "cancelled"]
  /\ ret' = None
  /\ last_call' = "_shutdown"
  /\ UNCHANGED regVars /\ UNCHANGED <<lbVars, fwd>>

\* The poller's own steps.
PollerStep ==
  \/ \E close_raises \in BOOLEAN : poll_cycle_start(close_raises)
  \/ \E i \in PolledPartIds, o \in ProbeOutcomes, close_raises \in BOOLEAN :
       check_part_done(i, o, close_raises)

PollerNext ==
  \/ \E p \in PolledParts : upsert_part(p)
  \/ \E i \in PolledPartIds : deregister_part(i)
  \/ \E close_raises \in BOOLEAN : poll_cycle_start(close_raises)
  \/ \E i \in PolledPartIds, o \in ProbeOutcomes, close_raises \in BOOLEAN :
       check_part_done(i, o, close_raises)
  \/ shutdown

SpecPoller == Init /\ [][PollerNext]_vars

\* The event loop runs the poller's task whenever it can run: a sleep returns,
\* and a probe ends because client.get has a timeout.
SpecPollerLive == Init /\ [][PollerNext]_vars /\ WF_vars(PollerStep)

(***************************************************************************)
(* Claims about the health poller, checked under SpecPoller and            *)
(* SpecPollerLive.                                                         *)
(***************************************************************************)

\* A probe succeeded: a response with a status code below 400 whose body
\* satisfies the health predicate ("status" is "OK" in a JSON object, or the
\* text of a body that is no JSON holds "OK").
ProbeSucceeded(o) ==
  /\ o.kind = "response"
  /\ o.status_code < 400
  /\ o.body \in {"json_ok", "text_ok"}

\* The end of a probe writes that probe's result for its part, UP exactly
\* when the probe succeeded, and nothing for another part.
ProbeWritesItsResult ==
  \A i \in PolledPartIds, o \in ProbeOutcomes, c \in BOOLEAN :
    check_part_done(i, o, c)
      => /\ poll'.written =
              [poll.written EXCEPT ![i] = <<IF ProbeSucceeded(o) THEN "UP" ELSE "DOWN">>]
         /\ i \in DOMAIN parts =>
              /\ parts'[i].status = (IF ProbeSucceeded(o) THEN "UP" ELSE "DOWN")
              /\ \A j \in DOMAIN parts \ {i} : parts'[j] = parts[j]

\* C17: in each poll cycle the poller writes exactly one result for every part
\* of the cycle's snapshot, whatever the other probes end in: UP if the part's
\* probe succeeded, DOWN on an exception, a timeout or a failed predicate.  A
\* cycle is over when the poller is not in gather.
C17_OneResultPerPart ==
  /\ [](\A i \in poll.snapshot : Len(poll.written[i]) <= 1)
  /\ [](poll.pc # "gather" => \A i \in poll.snapshot : Len(poll.written[i]) = 1)
  /\ [][ProbeWritesItsResult]_vars

\* The same of the cycles that gather has returned from: the poller sleeps.
CompletedCycleWritesEachPart ==
  /\ [](\A i \in poll.snapshot : Len(poll.written[i]) <= 1)
  /\ [](poll.pc = "sleep" => \A i \in poll.snapshot : Len(poll.written[i]) = 1)
  /\ [][ProbeWritesItsResult]_vars

\* A cycle over two parts has ended: one probe failed, the other succeeded.
C17_CycleWithFailedProbe ==
  /\ poll.pc = "sleep"
  /\ poll.snapshot = {"p1", "p2"}
  /\ poll.written["p1"] = <<"DOWN">>
  /\ poll.written["p2"] = <<"UP">>

\* C18: no error inside a cycle ends the loop: the task is in a sleep, in
\* gather, or cancelled; it sleeps after a cycle in which an Exception was
\* raised; only _shutdown's cancel stops it; and whatever cycle it is in, the
\* next cycle starts eventually unless the task is cancelled.
C18_LoopSurvivesErrors ==
  /\ [](poll.pc \in {"startup", "sleep", "gather", "cancelled"})
  /\ [](poll.error => poll.pc \in {"sleep", "cancelled"})
  /\ [][(poll.pc # "cancelled" /\ poll'.pc \notin {"startup", "sleep", "gather"})
          => shutdown]_vars
  /\ \A c \in 0..(MaxCycles - 1) :
       (poll.pc # "cancelled" /\ poll.cycle = c)
         ~> (poll.pc = "cancelled" \/ poll.cycle # c)

\* A cycle in which a probe failed and the closing of the client raised has
\* ended, and the loop sleeps.
C18_SleepsAfterFailedCycle ==
  /\ poll.pc = "sleep"
  /\ poll.error
  /\ \E i \in poll.snapshot : poll.written[i] = <<"DOWN">>

\* C19: the poller is cancelled only at a loop boundary: a cancellation never
\* stops it in gather, and when it has stopped every probe of its last cycle
\* has completed and written its result.
C19_CancelOnlyBetweenCycles ==
  /\ [][(poll.pc # "cancelled" /\ poll'.pc = "cancelled")
          => poll.pc \in {"startup", "sleep"}]_vars
  /\ [](poll.pc = "cancelled"
          => /\ poll.pending = {}
             /\ \A i \in poll.snapshot : Len(poll.written[i]) = 1)

\* The poller was cancelled in gather: one probe of the cycle had written its
\* result, the other was interrupted and has written none.
C19_CancelledMidCycle ==
  /\ poll.pc = "cancelled"
  /\ \E i \in poll.snapshot : i \in poll.pending /\ poll.written[i] = << >>
  /\ \E i \in poll.snapshot : i \notin poll.pending /\ Len(poll.written[i]) = 1

(***************************************************************************)
(* Reverse-proxy forwarder (load-balancer/app/services/proxy.py)           *)
(***************************************************************************)
\* The arguments of forward: upstream_base with or without a trailing slash,
\* subpath with or without a leading slash.
UpstreamBases == [url : Backends, slash : BOOLEAN]
Subpaths == [path : Paths, slash : BOOLEAN]

\* target_url (lines 34-36): the one trailing slash of upstream_base is
\* dropped and subpath gets its leading slash, whichever way they were given.
target_url(upstream_base, subpath) == [base |-> upstream_base.url, path |-> subpath.path]

\* HOP_BY_HOP (lines 13-16)
HOP_BY_HOP ==
  {"connection", "keep-alive", "proxy-authenticate", "proxy-authorization",
   "te", "trailers", "transfer-encoding", "upgrade"}

\* k.lower() on the header names of the model.
lower(k) ==
  CASE k = "Connection" -> "connection"
    [] k = "Transfer-Encoding" -> "transfer-encoding"
    [] OTHER -> k

\* A header dict: names to values, a value being its comma-separated items.
HeaderDicts(universe) ==
  {[k \in names |-> universe[k]] : names \in SUBSET DOMAIN universe}

\* The headers of inbound requests and of upstream responses.
InboundHeaderItems ==
  [k \in {"Connection", "accept", "x-forwarded-for"} |->
     CASE k = "Connection" -> <<"keep-alive">>
       [] k = "accept" -> <<"*/*">>
       [] k = "x-forwarded-for" -> <<"10.0.0.1">>]
UpstreamHeaderItems ==
  [k \in {"Transfer-Encoding", "content-type"} |->
     CASE k = "Transfer-Encoding" -> <<"chunked">>
       [] k = "content-type" -> <<"application/json">>]

\* The inbound requests: their headers and req.client ("None": no client);
\* the scheme is http and the URL has no port.
InboundRequests ==
  [headers : HeaderDicts(InboundHeaderItems), client : {"9.9.9.9", "None"}]

\* Hop-by-hop names compared as they are spelled.
strip_hop_headers_case_sensitive(headers) ==
  [k \in {x \in DOMAIN headers : x \notin HOP_BY_HOP} |-> headers[k]]

\* _strip_hop_headers (lines 18-19)
strip_hop_headers(headers) ==
  [k \in {x \in DOMAIN headers : lower(x) \notin HOP_BY_HOP} |-> headers[k]]

\* headers.setdefault(k, v), the dict that is left
SetDefault(d, k, v) == IF k \in DOMAIN d THEN d ELSE DictSet(d, k, <<v>>)

\* _add_forwarded (lines 21-30): the client's address is appended to the
\* x-forwarded-for chain, or starts it; proto, host and port are set when
\* absent.  The request has no host header: x-forwarded-host is "".
add_forwarded(request, headers) ==
  LET client_ip == IF request.client # "None" THEN request.client ELSE "unknown"
      chain == IF "x-forwarded-for" \in DOMAIN headers /\ headers["x-forwarded-for"] # << >>
                 THEN Append(headers["x-forwarded-for"], client_ip)
                 ELSE <<client_ip>> IN
  SetDefault(SetDefault(SetDefault(DictSet(headers, "x-forwarded-for", chain),
                                   "x-forwarded-proto", "http"),
                        "x-forwarded-host", ""),
             "x-forwarded-port", "80")

\* What client.send(upstream_request, stream=True) ends in.
SendOutcomes ==
  {[kind |-> "ConnectError"], [kind |-> "TimeoutException"]}
    \cup [kind : {"response"}, status_code : {200, 503},
          headers : HeaderDicts(UpstreamHeaderItems)]

\* A call of forward that has terminated, with the state it leaves its
\* resources in.
ForwardDone(f, exit) == [f EXCEPT !.pc = "done", !.exit = exit]

\* forward is called (lines 34-45): the outbound headers are made of the
\* inbound ones, the inbound body is read and the AsyncClient is created.  body_ok is whether req.body() returns; it raises
\* ClientDisconnect when the inbound client has gone, before any resource of
\* forward exists.
forward_begin(request, upstream_base, subpath, body_ok) ==
  /\ fwd.pc \in {"idle", "done"}
  /\ (IF fwd.pc = "idle" THEN 0 ELSE fwd.calls) < MaxForwards
  /\ LET f == [pc |-> "send", calls |-> (IF fwd.pc = "idle" THEN 0 ELSE fwd.calls) + 1,
               target |-> target_url(upstream_base, subpath),
               request |-> request,
               headers |-> add_forwarded(request, strip_hop_headers(request.headers)),
               upstream_headers |-> << >>,
               client |-> IF body_ok THEN "open" ELSE "none",
               upstream |-> "none", chunks |-> 0, exit |-> "none"] IN
     IF body_ok
       THEN fwd' = f /\ UNCHANGED <<last_call, ret>>
       ELSE /\ fwd' = ForwardDone(f, "body_failed")
            /\ ret' = Raised("ClientDisconnect")
            /\ last_call' = "forward"
  /\ UNCHANGED regVars /\ UNCHANGED lbVars /\ UNCHANGED poll

\* client.send returns or raises (line 46).  With a response, forward returns
\* the StreamingResponse over iter_upstream(), a generator not yet started
\* (lines 48-58); an exception of send leaves forward at line 46, outside any
\* try statement.
forward_send(o) ==
  /\ fwd.pc = "send"
  /\ IF o.kind = "response"
       THEN /\ fwd' = [fwd EXCEPT !.pc = "unstarted", !.upstream = "open",
                                 !.upstream_headers = o.headers]
            /\ ret' = [status |-> o.status_code, headers |-> strip_hop_headers(o.headers),
                       body |-> "iter_upstream"]
       ELSE /\ fwd' = ForwardDone(fwd, "upstream_failed")
            /\ ret' = Raised(o.kind)
  /\ last_call' = "forward"
  /\ UNCHANGED regVars /\ UNCHANGED lbVars /\ UNCHANGED poll

\* The framework starts to iterate the body: iter_upstream enters its try
\* statement and waits for the first chunk (lines 51-52).
stream_start ==
  /\ fwd.pc = "unstarted"
  /\ fwd' = [fwd EXCEPT !.pc = "streaming"]
  /\ UNCHANGED <<last_call, ret>>
  /\ UNCHANGED regVars /\ UNCHANGED lbVars /\ UNCHANGED poll

\* A chunk of the upstream body is yielded (line 53).
stream_chunk ==
  /\ fwd.pc = "streaming"
  /\ fwd.chunks < MaxChunks
  /\ fwd' = [fwd EXCEPT !.chunks = @ + 1]
  /\ UNCHANGED <<last_call, ret>>
  /\ UNCHANGED regVars /\ UNCHANGED lbVars /\ UNCHANGED poll

\* iter_upstream leaves its try statement: the upstream body is exhausted
\* ("completed"), aiter_bytes raises ("stream_error"), or the inbound client
\* has gone and the generator is closed or cancelled ("disconnected").  The
\* finally clause closes the response and the client (lines 54-56).
stream_end(exit) ==
  /\ fwd.pc = "streaming"
  /\ fwd' = [ForwardDone(fwd, exit) EXCEPT !.upstream = "closed", !.client = "closed"]
  /\ UNCHANGED <<last_call, ret>>
  /\ UNCHANGED regVars /\ UNCHANGED lbVars /\ UNCHANGED poll

\* The inbound client has gone before the framework started to iterate the
\* body: the generator is dropped without having been started, and closing a
\* generator that has not started runs none of it, its finally clause included.
disconnect_before_stream ==
  /\ fwd.pc = "unstarted"
  /\ fwd' = ForwardDone(fwd, "disconnected_unstarted")
  /\ UNCHANGED <<last_call, ret>>
  /\ UNCHANGED regVars /\ UNCHANGED lbVars /\ UNCHANGED poll

ForwardNext ==
  \/ \E r \in InboundRequests, b \in UpstreamBases, p \in Subpaths, body_ok \in BOOLEAN :
       forward_begin(r, b, p, body_ok)
  \/ \E o \in SendOutcomes : forward_send(o)
  \/ stream_start
  \/ stream_chunk
  \/ \E exit \in {"completed", "stream_error", "disconnected"} : stream_end(exit)
  \/ disconnect_before_stream

SpecForward == Init /\ [][ForwardNext]_vars

(***************************************************************************)
(* Claims about forward, checked under SpecForward.                        *)
(***************************************************************************)

\* C20: forward releases the upstream response and the HTTP client on every
\* exit path: no terminated call of forward leaves its client open or its
\* upstream response open.
C20_ForwardReleases ==
  fwd.pc = "done" => fwd.client # "open" /\ fwd.upstream # "open"

\* The exit paths through iter_upstream's try statement release both: the
\* stream completed, the upstream failed mid-stream, the inbound client went
\* away while the generator was running.
StreamedForwardReleases ==
  (fwd.pc = "done" /\ fwd.exit \in {"completed", "stream_error", "disconnected"})
    => fwd.client = "closed" /\ fwd.upstream = "closed"

\* A call of forward has terminated because client.send raised.
C20_UpstreamCallFailed ==
  /\ fwd.pc = "done"
  /\ fwd.exit = "upstream_failed"
  /\ fwd.client = "open"

\* No header of the dict is hop-by-hop, whatever the case of its name.
NoHopByHop(headers) == \A k \in DOMAIN headers : lower(k) \notin HOP_BY_HOP

\* Every header of inbound that is not hop-by-hop and not one of the names in
\* except is in outbound with the same value.
ForwardedUnchanged(inbound, outbound, except) ==
  \A k \in DOMAIN inbound :
    (lower(k) \notin HOP_BY_HOP /\ k \notin except)
      => k \in DOMAIN outbound /\ outbound[k] = inbound[k]

\* While forward's response is the last thing returned, it is the upstream
\* response without its hop-by-hop headers and with its other headers
\* unchanged.
ResponseRelayed ==
  (fwd.pc \in {"unstarted", "streaming", "done"} /\ fwd.upstream # "none")
    => /\ NoHopByHop(ret.headers)
       /\ ForwardedUnchanged(fwd.upstream_headers, ret.headers, {})

PayloadElements ==
  {JStr(b) : b \in Backends}
    \cup {[url |-> b] : b \in Backends}
    \cup {[host |-> b.host, port |-> b.port] : b \in Backends}
    \cup {[host |-> "127.0.0.1"], [name |-> "web-1"]}

PayloadLists == UNION {[1..n -> PayloadElements] : n \in 0..MaxItems}

\* The payloads: a bare list, an object that holds a list under one key, and
\* an object whose "backends" is no list.
Payloads ==
  {JList(l) : l \in PayloadLists}
    \cup {JDict([backends |-> JList(l)]) : l \in PayloadLists}
    \cup {JDict([endpoints |-> JList(l)]) : l \in PayloadLists}
    \cup {JDict([instances |-> JList(l)]) : l \in PayloadLists}
    \cup {JDict([backends |-> JStr("none")])}

\* _normalize_endpoints(payload) is called.
normalize(payload) ==
  /\ ret' = [payload |-> payload, list |-> normalize_endpoints(payload)]
  /\ last_call' = "_normalize_endpoints"
  /\ UNCHANGED regVars /\ UNCHANGED <<lbVars, poll, fwd>>

NormalizeNext == \E payload \in Payloads : normalize(payload)

SpecNormalize == Init /\ [][NormalizeNext]_vars

(***************************************************************************)
(* Claims about payload normalization, checked under SpecNormalize.        *)
(***************************************************************************)

\* The list a payload holds: itself, or the list under "backends",
\* "endpoints" or "instances"; << >> when it holds none.
HeldList(payload) ==
  IF "list" \in DOMAIN payload
    THEN payload.list
    ELSE IF \E k \in {"backends", "endpoints", "instances"} :
              k \in DOMAIN payload.dict /\ "list" \in DOMAIN payload.dict[k]
           THEN LET k == CHOOSE k \in {"backends", "endpoints", "instances"} :
                           k \in DOMAIN payload.dict /\ "list" \in DOMAIN payload.dict[k] IN
                payload.dict[k].list
           ELSE << >>

\* The URLs of the recognized elements of a list, in list order: a URL
\* string, the "url" of an object, http://host:port of an object with both.
RECURSIVE RecognizedUrls(_)
RecognizedUrls(items) ==
  IF items = << >>
    THEN << >>
    ELSE LET it == Head(items)
             u == IF "str" \in DOMAIN it THEN <<it.str>>
                  ELSE IF "url" \in DOMAIN it THEN <<it.url>>
                  ELSE IF "host" \in DOMAIN it /\ "port" \in DOMAIN it
                         THEN <<Url(it.host, it.port)>>
                         ELSE << >> IN
         u \o RecognizedUrls(Tail(items))

\* C22: for a payload that is a list or an object holding a list under
\* backends, endpoints or instances, the result of _normalize_endpoints is the
\* URL of each recognized element (URL string, object with url, object with
\* host and port) in payload order, the other elements dropped.
C22_NormalizesEveryShape ==
  last_call = "_normalize_endpoints"
    => ret.list = RecognizedUrls(HeldList(ret.payload))

\* The same of the payloads the code reads: a list, or an object with a list
\* under "backends", whose elements are objects.
NormalizesObjectLists ==
  (/\ last_call = "_normalize_endpoints"
   /\ "list" \in DOMAIN ret.payload \/ "backends" \in DOMAIN ret.payload.dict
   /\ \A k \in DOMAIN HeldList(ret.payload) : is_dict(HeldList(ret.payload)[k]))
    => ret.list = RecognizedUrls(HeldList(ret.payload))

\* A list under "endpoints" with a recognized element and an unrecognized one
\* was given, and no URL was returned.
C22_EndpointsListDropped ==
  /\ last_call = "_normalize_endpoints"
  /\ ret.list = << >>
  /\ "dict" \in DOMAIN ret.payload
  /\ "endpoints" \in DOMAIN ret.payload.dict
  /\ Len(RecognizedUrls(HeldList(ret.payload))) = 1
  /\ Len(HeldList(ret.payload)) = 2

(***************************************************************************)
(* Threads that call pick, record_request and reset of one                 *)
(* RoundRobinAlgorithm concurrently (algorithms/round_robin.py, base.py).  *)
(* A batch is a set of calls, one per thread, that overlap in time.        *)
(***************************************************************************)
\* The calls a thread makes.
ThreadCalls ==
  [name : {"pick"}, backends : CandidateLists \ {<< >>}]
    \cup [name : {"record_request"}, success : BOOLEAN]
    \cup {[name |-> "reset"]}

\* The state the threads share: the algorithm's rotation state and its
\* counters.
Shared == [rr |-> rr, st |-> stats["round_robin"]]

\* A call made alone, from shared state sh.
apply_call(call, sh) ==
  CASE call.name = "pick" -> [sh EXCEPT !.rr = rr_pick(sh.rr, call.backends).state]
    [] call.name = "record_request" -> [sh EXCEPT !.st = record_request(sh.st, call.success)]
    [] call.name = "reset" -> [rr |-> rr_reset, st |-> base_reset]

\* A thread enters a call; the first of a batch fixes the state the batch
\* starts from.  pick waits for self._lock (line 24), record_request reads
\* request_count for its += (line 43), reset runs super().reset() (line 39).
thread_call(t, call) ==
  /\ thr.t[t].pc = "idle"
  /\ thr.base = None => thr.batches < MaxBatches
  /\ thr' = [base |-> IF thr.base = None THEN Shared ELSE thr.base,
             batches |-> IF thr.base = None THEN thr.batches + 1 ELSE thr.batches,
             t |-> [thr.t EXCEPT ![t] =
                      [pc |-> CASE call.name = "pick" -> "pick_locked"
                                [] call.name = "record_request" -> "read_request_count"
                                [] call.name = "reset" -> "reset_request_count",
                       call |-> call, tmp |-> 0]]]
  /\ UNCHANGED <<rr, lc, wrr, stats, picker, lb_now, req, last_call, ret>>
  /\ UNCHANGED <<regVars, poll, fwd>>

\* pick's block under self._lock (round_robin.py:24-35), one step: no other
\* thread is inside a block under the same lock.
thread_pick(t) ==
  /\ thr.t[t].pc = "pick_locked"
  /\ rr' = rr_pick(rr, thr.t[t].call.backends).state
  /\ thr' = [thr EXCEPT !.t[t].pc = "done"]
  /\ UNCHANGED <<lc, wrr, stats, picker, lb_now, req, last_call, ret>>
  /\ UNCHANGED <<regVars, poll, fwd>>

\* record_request (base.py:41-46), which takes no lock: each += reads the
\* counter and then writes it.
thread_record_request(t) ==
  LET me == thr.t[t]
      st == stats["round_robin"] IN
  /\ me.pc \in {"read_request_count", "write_request_count",
                "read_error_count", "write_error_count"}
  /\ CASE me.pc = "read_request_count" ->
            /\ thr' = [thr EXCEPT !.t[t].tmp = st.request_count,
                                  !.t[t].pc = "write_request_count"]
            /\ UNCHANGED stats
       [] me.pc = "write_request_count" ->
            /\ stats' = [stats EXCEPT !["round_robin"].request_count = me.tmp + 1]
            /\ thr' = [thr EXCEPT !.t[t].pc =
                         IF me.call.success THEN "done" ELSE "read_error_count"]
       [] me.pc = "read_error_count" ->
            /\ thr' = [thr EXCEPT !.t[t].tmp = st.error_count,
                                  !.t[t].pc = "write_error_count"]
            /\ UNCHANGED stats
       [] me.pc = "write_error_count" ->
            /\ stats' = [stats EXCEPT !["round_robin"].error_count = me.tmp + 1]
            /\ thr' = [thr EXCEPT !.t[t].pc = "done"]
  /\ UNCHANGED <<rr, lc, wrr, picker, lb_now, req, last_call, ret>>
  /\ UNCHANGED <<regVars, poll, fwd>>

\* reset (round_robin.py:37-42): super().reset() without the lock, one
\* assignment at a time (base.py:38-39), then the block under self._lock.
thread_reset(t) ==
  LET me == thr.t[t] IN
  /\ me.pc \in {"reset_request_count", "reset_error_count", "reset_locked"}
  /\ CASE me.pc = "reset_request_count" ->
            /\ stats' = [stats EXCEPT !["round_robin"].request_count = 0]
            /\ thr' = [thr EXCEPT !.t[t].pc = "reset_error_count"]
            /\ UNCHANGED rr
       [] me.pc = "reset_error_count" ->
            /\ stats' = [stats EXCEPT !["round_robin"].error_count = 0]
            /\ thr' = [thr EXCEPT !.t[t].pc = "reset_locked"]
            /\ UNCHANGED rr
       [] me.pc = "reset_locked" ->
            /\ rr' = rr_reset
            /\ thr' = [thr EXCEPT !.t[t].pc = "done"]
            /\ UNCHANGED stats
  /\ UNCHANGED <<lc, wrr, picker, lb_now, req, last_call, ret>>
  /\ UNCHANGED <<regVars, poll, fwd>>

\* Every call of the batch has returned: the threads are free for the next.
threads_join ==
  /\ thr.base # None
  /\ \A t \in Threads : thr.t[t].pc \in {"idle", "done"}
  /\ thr' = [thr EXCEPT !.base = None, !.t = [x \in Threads |-> [pc |-> "idle"]]]
  /\ UNCHANGED <<rr, lc, wrr, stats, picker, lb_now, req, last_call, ret>>
  /\ UNCHANGED <<regVars, poll, fwd>>

ThreadsNext ==
  \/ \E t \in Threads, call \in ThreadCalls : thread_call(t, call)
  \/ \E t \in Threads : thread_pick(t)
  \/ \E t \in Threads : thread_record_request(t)
  \/ \E t \in Threads : thread_reset(t)
  \/ threads_join

SpecThreads == Init /\ [][ThreadsNext]_vars

(***************************************************************************)
(* Claims about concurrent calls, checked under SpecThreads.               *)
(***************************************************************************)

\* The calls of sequence order made one after the other from sh.
RECURSIVE apply_calls(_, _)
apply_calls(order, sh) ==
  IF order = << >> THEN sh ELSE apply_calls(Tail(order), apply_call(Head(order), sh))

\* The batch is over: some thread made a call, and every call has returned.
BatchOver ==
  /\ thr.base # None
  /\ \A t \in Threads : thr.t[t].pc \in {"idle", "done"}

\* What the calls of the batch leave in some sequential order.
SequentialOutcomes ==
  LET called == {t \in Threads : thr.t[t].pc = "done"} IN
  {apply_calls([k \in 1..Cardinality(called) |-> thr.t[order[k]].call], thr.base) :
     order \in Orderings(called)}

\* C23: for any interleaving of concurrent pick, record_request and reset
\* calls, the state they leave (rotation index, request_count, error_count)
\* is the state some sequential order of the calls leaves.
C23_CallsSerialized == BatchOver => Shared \in SequentialOutcomes

\* The same of batches of pick calls only, which all run under self._lock.
PicksSerialized ==
  (BatchOver /\ \A t \in Threads : thr.t[t].pc = "done" => thr.t[t].call.name = "pick")
    => Shared \in SequentialOutcomes

\* A reset and a record_request(success=False) have overlapped, and the
\* state they left is that of neither order.
C23_ResetOverwritten ==
  /\ BatchOver
  /\ \E t \in Threads : thr.t[t].pc = "done" /\ thr.t[t].call.name = "reset"
  /\ \E t \in Threads : thr.t[t].pc = "done" /\ thr.t[t].call = [name |-> "record_request", success |-> FALSE]
  /\ Shared \notin SequentialOutcomes

(***************************************************************************)
(* Claims about Round-Robin's reset on a change of the candidates,         *)
(* checked under SpecRR.                                                   *)
(***************************************************************************)
\* The candidates of a list, as a set.
CandidateSet(L) == {L[k] : k \in 1..Len(L)}

\* From state s, a call pick(L1) and then a call pick(L2): the state after the
\* first call and the outcome of the second.
rr_then(s, L1, L2) ==
  LET s1 == rr_pick(s, L1).state
  IN [before |-> s1, second |-> rr_pick(s1, L2)]

\* The second call started from index 0: it returned candidates[0] and left
\* the index at 1.
StartedAtZero(p, L2) ==
  /\ p.second.state.index = 1
  /\ p.second.result = Chosen(L2[1])

\* The second call went on from the index the first call left.
WentOn(p, L2) ==
  /\ p.second.state.index = p.before.index + 1
  /\ p.second.result = Chosen(L2[(p.before.index % Len(L2)) + 1])

\* C24: a pick resets the rotation index to 0 exactly when its candidate set,
\* compared order-independently, differs from the candidate set of the
\* previous call: after a change the pick returns candidates[0] of the new
\* list, and the same set of candidates in another list order is no change
\* and does not reset the index.
C24_ResetOnSetChange ==
  \A L1 \in CandidateLists : \A L2 \in CandidateLists \ {<< >>} :
    LET p == rr_then(rr, L1, L2)
    IN IF CandidateSet(L1) # CandidateSet(L2)
         THEN StartedAtZero(p, L2)
         ELSE WentOn(p, L2)

\* What pick does: it resets the index exactly when the sorted list of its
\* candidates, repetitions kept, differs from the sorted list of the last call
\* that passed a non-empty list (or there is no such call since construction
\* or reset).
ResetOnSortedListChange ==
  \A L1 \in CandidateLists : \A L2 \in CandidateLists \ {<< >>} :
    LET p == rr_then(rr, L1, L2)
    IN IF BackendsHash(L2) # p.before.last_backends_hash
         THEN StartedAtZero(p, L2)
         ELSE WentOn(p, L2)

\* C24's case: a call with an empty candidate list has just returned None
\* after a call with two distinct candidates, so that the next call with
\* these two candidates follows a call with another candidate set.
C24_EmptyListBetween ==
  /\ last_call = "RoundRobinAlgorithm.pick"
  /\ ret = None
  /\ rr.index = 1
  /\ rr.last_backends_hash # None
  /\ Len(rr.last_backends_hash.tuple) = 2
  /\ rr.last_backends_hash.tuple[1] # rr.last_backends_hash.tuple[2]

(***************************************************************************)
(* Claims about Least-Connections' choice and expiry, checked under SpecLC.*)
(***************************************************************************)
\* C25: a pick with candidates returns a candidate whose counter, after
\* expiry, is minimal among the candidates of the call, the first such
\* candidate in list order on ties; it increments that backend's counter by
\* one and leaves every other backend's counter as expiry left it.
C25_PicksFirstMinimum ==
  [][\A bs \in CandidateLists \ {<< >>} :
       LC_pick(bs) =>
         LET c == lc_cleanup(lc, lb_now) IN
         \E k \in 1..Len(bs) :
           /\ ret' = Chosen(bs[k])
           /\ \A j \in 1..Len(bs) : Connections(c, bs[j]) >= Connections(c, bs[k])
           /\ \A j \in 1..(k - 1) : Connections(c, bs[j]) > Connections(c, bs[k])
           /\ Connections(lc', bs[k]) = Connections(c, bs[k]) + 1
           /\ \A o \in Backends \ {bs[k]} : Connections(lc', o) = Connections(c, o)]_vars

\* C25's case: with the first backend at 2 and the second at 0, a pick has
\* just returned the second and raised its counter to 1.
C25_PickedLeastLoaded ==
  /\ last_call = "LeastConnectionsAlgorithm.pick"
  /\ \E b1, b2 \in Backends :
       /\ b1.port < b2.port
       /\ ret = Chosen(b2)
       /\ Connections(lc, b1) = 2
       /\ Connections(lc, b2) = 1

\* The last pick of backend b is older than the connection timeout.
Expired(b) ==
  /\ b \in DOMAIN lc.last_request_time
  /\ lb_now - lc.last_request_time[b] > CONNECTION_TIMEOUT

\* The counter of backend b that a pick starting now counts with.
Counted(b) == IF Expired(b) THEN 0 ELSE Connections(lc, b)

WeightBackends == {Url(h, p) : h \in Hosts, p \in MinPort..MaxPort}

WeightLists == UNION {[1..n -> WeightBackends] : n \in 1..2}

\* _reset_weights(backends) is called: one _get_backend_weight per backend.
derive_weights(backends) ==
  /\ ret' = [backends |-> backends, weights |-> reset_weights(backends)]
  /\ last_call' = "_reset_weights"
  /\ UNCHANGED regVars /\ UNCHANGED <<lbVars, poll, fwd>>

WeightsNext == \E backends \in WeightLists : derive_weights(backends)

SpecWeights == Init /\ [][WeightsNext]_vars

(***************************************************************************)
(* Claims about the weight derivation, checked under SpecWeights.          *)
(***************************************************************************)
\* The weights of a list have just been derived.
Derived == last_call = "_reset_weights"

\* Every derived weight is at least 1.
WeightAtLeastOne ==
  Derived => \A b \in DOMAIN ret.weights : ret.weights[b] >= 1

\* C27: the default weight derivation is monotone in the port: of two
\* backends with ports p < q the p-backend's derived weight is greater than
\* or equal to the q-backend's, and every derived weight is at least 1.
C27_WeightMonotoneInPort ==
  Derived =>
    /\ \A b1, b2 \in DOMAIN ret.weights :
         b1.port < b2.port => ret.weights[b1] >= ret.weights[b2]
    /\ \A b \in DOMAIN ret.weights : ret.weights[b] >= 1

\* C27's case: the weights of two backends whose ports differ in the tens
\* digit, 9009 and 9010, have just been derived.
C27_PortsAcrossTen ==
  /\ Derived
  /\ {b.port : b \in DOMAIN ret.weights} = {9009, 9010}

(***************************************************************************)
(* Claims about Weighted Round-Robin's explicit weights, checked under     *)
(* SpecWRR.                                                                *)
(***************************************************************************)
\* The weight of candidate x when backend b has the explicit weight w.
OverrideWeight(x, b, w) == IF x = b THEN w ELSE get_backend_weight(x)

\* The length of a full cycle over the candidates L[k..] with these weights.
RECURSIVE OverrideCycle(_, _, _, _)
OverrideCycle(L, k, b, w) ==
  IF k > Len(L) THEN 0 ELSE OverrideWeight(L[k], b, w) + OverrideCycle(L, k + 1, b, w)

\* C28: once set_backend_weight(b, w) with w > 0 has been called, a later
\* re-derivation of the weights gives b the weight w instead of the
\* port-derived weight: when the next pick passes a changed candidate list L
\* that holds b, and so re-derives the weights, the full cycle that starts
\* with this pick chooses b exactly w times.
C28_OverrideSurvivesRederivation ==
  \A b \in Backends : \A w \in 1..MaxWeight : \A L \in DistinctLists :
    LET s1 == wrr_set_backend_weight(wrr, b, w)
    IN (b \in {L[k] : k \in 1..Len(L)} /\ s1.last_backends_hash # BackendsHash(L))
         => Cardinality({j \in 1..OverrideCycle(L, 1, b, w) :
                           wrr_nth(s1, L, j) = Chosen(b)}) = w

\* What the code does: the first pick on a changed candidate list derives
\* every weight from the port, whatever weight was set before.
RederivationDropsOverride ==
  \A b \in Backends : \A w \in 1..MaxWeight : \A L \in DistinctLists :
    LET s1 == wrr_set_backend_weight(wrr, b, w)
    IN s1.last_backends_hash # BackendsHash(L)
         => wrr_pick(s1, L) = wrr_pick([s1 EXCEPT !.current_weights = << >>], L)

\* C28's case: a weight other than the port-derived one has just been set for
\* a backend, and no candidate list is recorded, so that the next pick
\* re-derives the weights.
C28_OverrideSet ==
  /\ last_call = "WeightedRoundRobinAlgorithm.set_backend_weight"
  /\ wrr.last_backends_hash = None
  /\ \E b \in DOMAIN wrr.current_weights :
       wrr.current_weights[b] \notin {0, get_backend_weight(b)}

(***************************************************************************)
(* Claims about the Picker's exploration phase, checked under SpecPicker.  *)
(***************************************************************************)
\* The exploration phase lasts while the request counts sum to less than this.
ExplorationRequests == min_requests_for_switch * NumAlgorithms

\* Picker.pick has just returned a backend, and it was called in the
\* exploration phase: the pick itself recorded one request.
PickedInExploration ==
  /\ last_call = "Picker.pick"
  /\ "backend" \in DOMAIN ret
  /\ total_requests(stats) <= ExplorationRequests

\* The algorithm of the k-th pick (k = 1, 2, ...) of a rotation in list order
\* that gives each algorithm, the first included, min_requests_for_switch
\* consecutive picks.
RotationIndex(k) == ((k - 1) \div min_requests_for_switch) % NumAlgorithms

\* C29: while the request counts sum to less than min_requests_for_switch * 3,
\* the active algorithm rotates in list order and each algorithm, the first
\* one included, receives exactly min_requests_for_switch consecutive picks
\* before the picker rotates to the next: the k-th pick of the exploration
\* phase is made by algorithm ((k - 1) div min_requests_for_switch) mod 3.
C29_ExplorationRotation ==
  PickedInExploration =>
    picker.current_algorithm_index = RotationIndex(picker.exploration_counter)

\* C29's case: the first pick of a new Picker has just returned a backend,
\* and the first algorithm has no request recorded.
C29_FirstPickSkipsFirstAlgorithm ==
  /\ PickedInExploration
  /\ picker.exploration_counter = 1
  /\ total_requests(stats) = 1
  /\ stats[AlgoNames[1]].request_count = 0

\* C30: at the moment the exploration phase ends (the request counts sum to
\* min_requests_for_switch * number of algorithms), every algorithm has at
\* least min_requests_for_switch recorded requests, for every interleaving of
\* pick and record_backend_result.
C30_ExplorationBaseline ==
  total_requests(stats) = ExplorationRequests =>
    \A k \in 1..NumAlgorithms :
      stats[AlgoNames[k]].request_count >= min_requests_for_switch

\* C30's case: a recorded backend result has just ended the exploration
\* phase.
C30_ResultEndsExploration ==
  /\ last_call = "Picker.record_backend_result"
  /\ total_requests(stats) = ExplorationRequests
  /\ picker.exploration_counter < ExplorationRequests

(***************************************************************************)
(* Claims about the Picker's evaluation, checked under SpecPicker.         *)
(***************************************************************************)
\* The picker state on which a pick called now evaluates: the state after
\* _force_exploration.
Explored == force_exploration(picker, stats)

\* The picker state after the evaluation of a pick called now.
Evaluated == maybe_switch_algorithm(Explored, stats, lb_now)

\* A pick called now runs an evaluation: the window has elapsed.
EvaluationRuns == lb_now - Explored.last_evaluation >= EVALUATION_WINDOW

\* The counters and the score of the algorithm that is active when the
\* evaluation of a pick called now starts.
ActiveStats == stats[AlgoNames[Explored.current_algorithm_index + 1]]

ActiveScore == calculate_algorithm_score(ActiveStats)

\* C31: when an evaluation runs and the active algorithm at index i has at
\* least min_requests_for_switch requests and a score below 0.8, the active
\* index becomes (i + 1) mod 3, the next algorithm in list order, for every i
\* in {0, 1, 2}.
C31_PoorScoreRotatesToNext ==
  (/\ EvaluationRuns
   /\ ActiveStats.request_count >= min_requests_for_switch
   /\ ScoreBelowThreshold(ActiveScore))
  => Evaluated.current_algorithm_index
       = (Explored.current_algorithm_index + 1) % NumAlgorithms

\* What the code does: under the same conditions the active index becomes the
\* first index other than i, which is 1 for i = 0 and 0 for i = 1 and i = 2.
PoorScoreSwitchesToFirstOther ==
  (/\ EvaluationRuns
   /\ ActiveStats.request_count >= min_requests_for_switch
   /\ ScoreBelowThreshold(ActiveScore))
  => Evaluated.current_algorithm_index
       = (IF Explored.current_algorithm_index = 0 THEN 1 ELSE 0)

\* C31's case: the evaluation of the last pick found the second algorithm
\* active with enough requests and a score below 0.8, and made the first
\* algorithm the active one: that pick is the first algorithm's only request,
\* and the third algorithm has none.
C31_SecondSwitchedToFirst ==
  /\ last_call = "Picker.pick"
  /\ lb_now >= EVALUATION_WINDOW
  /\ picker.last_evaluation = lb_now
  /\ picker.current_algorithm_index = 0
  /\ total_requests(stats) - 1 >= min_requests_for_switch * NumAlgorithms
  /\ stats[AlgoNames[1]].request_count = 1
  /\ stats[AlgoNames[3]].request_count = 0
  /\ stats[AlgoNames[2]].request_count >= min_requests_for_switch
  /\ ScoreBelowThreshold(calculate_algorithm_score(stats[AlgoNames[2]]))

(***************************************************************************)
(* A run of requests to one backend: picks on the list of that backend and *)
(* recorded results, long enough for scores between 0.8 and 1.             *)
(***************************************************************************)
RunBackend == Url("127.0.0.1", PortOf("w1"))

RunNext ==
  \/ Picker_pick_within(<<RunBackend>>, MaxRunRequests)
  \/ \E ok \in BOOLEAN : Picker_record_backend_result_within(RunBackend, ok, MaxRunRequests)
  \/ LbTickUntil(MaxRunTime)

SpecRun == Init /\ [][RunNext]_vars

(***************************************************************************)
(* Claims about the margin switch, checked under SpecRun.                  *)
(***************************************************************************)
\* Algorithm k (an index) has at least min_requests_for_switch requests and a
\* score that exceeds the active algorithm's score by more than 0.05.
BeatsActive(k) ==
  /\ stats[AlgoNames[k + 1]].request_count >= min_requests_for_switch
  /\ ScoreBeatsByMargin(calculate_algorithm_score(stats[AlgoNames[k + 1]]), ActiveScore)

\* C32: when an evaluation runs and the active algorithm's score is at least
\* 0.8, the active index changes only to an algorithm that has at least
\* min_requests_for_switch requests and whose score exceeds the active
\* algorithm's score by more than 0.05; if there is no such algorithm, or the
\* active algorithm has fewer than min_requests_for_switch requests, the
\* active index is unchanged.
C32_MarginSwitch ==
  EvaluationRuns =>
    /\ ActiveStats.request_count < min_requests_for_switch
         => Evaluated.current_algorithm_index = Explored.current_algorithm_index
    /\ (/\ ActiveStats.request_count >= min_requests_for_switch
        /\ ~ScoreBelowThreshold(ActiveScore))
         => /\ Evaluated.current_algorithm_index # Explored.current_algorithm_index
                 => BeatsActive(Evaluated.current_algorithm_index)
            /\ (\A k \in 0..(NumAlgorithms - 1) : ~BeatsActive(k))
                 => Evaluated.current_algorithm_index = Explored.current_algorithm_index

\* The counters of algorithm k (an index) before the last pick, which
\* recorded one successful request for the active algorithm.
StatsBeforePick(k) ==
  IF k = picker.current_algorithm_index
    THEN [stats[AlgoNames[k + 1]] EXCEPT !.request_count = @ - 1]
    ELSE stats[AlgoNames[k + 1]]

\* C32's case: the last pick ran an evaluation and was made by an algorithm
\* that had enough requests and beat, by more than the margin, the score of
\* another algorithm that has enough requests and a score of at least 0.8
\* and below 1: the evaluation has switched from that one.
C32_SwitchedByMargin ==
  /\ last_call = "Picker.pick"
  /\ "backend" \in DOMAIN ret
  /\ lb_now >= EVALUATION_WINDOW
  /\ picker.last_evaluation = lb_now
  /\ StatsBeforePick(picker.current_algorithm_index).request_count >= min_requests_for_switch
  /\ \E A \in 0..(NumAlgorithms - 1) \ {picker.current_algorithm_index} :
       /\ stats[AlgoNames[A + 1]].request_count >= min_requests_for_switch
       /\ stats[AlgoNames[A + 1]].error_count > 0
       /\ ~ScoreBelowThreshold(calculate_algorithm_score(stats[AlgoNames[A + 1]]))
       /\ ScoreBeatsByMargin(
            calculate_algorithm_score(StatsBeforePick(picker.current_algorithm_index)),
            calculate_algorithm_score(stats[AlgoNames[A + 1]]))

(***************************************************************************)
(* Claims about the frequency of evaluations, checked under SpecRun.       *)
(***************************************************************************)
\* The step is a call of Picker.pick that returns a backend: it records a
\* request.
PickStep == last_call' = "Picker.pick" /\ stats' # stats

\* C33: evaluations are at least one evaluation window apart (an evaluation
\* runs at least one window after the previous one, or after construction),
\* and a pick changes the active algorithm otherwise than by exploration only
\* when it runs an evaluation: the active algorithm is changed by evaluation
\* at most once per window, however many picks occur in it.
C33_EvaluationsWindowApart ==
  [][PickStep =>
       /\ picker'.last_evaluation # picker.last_evaluation
            => /\ picker'.last_evaluation = lb_now
               /\ lb_now - picker.last_evaluation >= EVALUATION_WINDOW
       /\ picker'.current_algorithm_index # Explored.current_algorithm_index
            => picker'.last_evaluation # picker.last_evaluation]_vars

\* C33's case: a pick has just run an evaluation two windows after
\* construction, and it is the second evaluation: only one pick was made in
\* the exploration phase, by the second algorithm, so the first algorithm got
\* its requests after an earlier evaluation had switched to it; the second
\* evaluation has switched back to the second algorithm.
C33_SecondEvaluation ==
  /\ last_call = "Picker.pick"
  /\ "backend" \in DOMAIN ret
  /\ picker.last_evaluation = lb_now
  /\ lb_now >= 2 * EVALUATION_WINDOW
  /\ picker.exploration_counter = 1
  /\ stats[AlgoNames[1]].request_count > 0
  /\ picker.current_algorithm_index = 1

(***************************************************************************)
(* Claims about recorded backend results, checked under SpecPicker.        *)
(***************************************************************************)
\* The outcome of Picker.pick(bs) called now.
PickNow(bs) ==
  picker_pick(picker, stats, [rr |-> rr, lc |-> lc, wrr |-> wrr], bs, lb_now)

\* The counters after Picker.pick(bs) called now has returned a backend and
\* record_backend_result(that backend, success) has followed.
StatsAfterPickAndResult(bs, success) ==
  LET r == PickNow(bs)
  IN record_backend_result(r.picker, r.stats, r.result.backend, success)

\* The name of the algorithm that makes a pick called now.
AlgorithmOfPick(bs) == AlgoNames[PickNow(bs).picker.current_algorithm_index + 1]

\* C34: record_backend_result(backend, success) applies the real outcome to
\* the algorithm that made the most recent pick of that backend, correcting
\* the success counted at pick time: after one pick followed by
\* record_backend_result(backend, False) that algorithm's tally has grown by
\* one request with one error (the request is not counted a second time),
\* the other algorithms' counters are unchanged, and for a backend that was
\* never picked no counter changes.
C34_ResultCorrectsPick ==
  /\ \A bs \in CandidateLists \ {<< >>} :
       "backend" \in DOMAIN PickNow(bs).result =>
         LET after == StatsAfterPickAndResult(bs, FALSE)
             A == AlgorithmOfPick(bs)
         IN /\ after[A].request_count = stats[A].request_count + 1
            /\ after[A].error_count = stats[A].error_count + 1
            /\ \A o \in DOMAIN stats \ {A} : after[o] = stats[o]
  /\ \A b \in Backends \ DOMAIN picker.last_backend_choice : \A ok \in BOOLEAN :
       record_backend_result(picker, stats, b, ok) = stats

\* What the code does: the recorded result is one more request of the
\* algorithm that made the pick, with one error when it failed.
ResultCountsAgain ==
  /\ \A bs \in CandidateLists \ {<< >>} :
       "backend" \in DOMAIN PickNow(bs).result =>
         LET after == StatsAfterPickAndResult(bs, FALSE)
             A == AlgorithmOfPick(bs)
         IN /\ after[A].request_count = stats[A].request_count + 2
            /\ after[A].error_count = stats[A].error_count + 1
            /\ \A o \in DOMAIN stats \ {A} : after[o] = stats[o]
  /\ \A b \in Backends \ DOMAIN picker.last_backend_choice : \A ok \in BOOLEAN :
       record_backend_result(picker, stats, b, ok) = stats

\* C34's case: one pick and one failed result have been recorded, and an
\* algorithm has two requests and one error.
C34_OnePickOneFailure ==
  /\ last_call = "Picker.record_backend_result"
  /\ picker.exploration_counter = 1
  /\ \E n \in DOMAIN stats :
       /\ stats[n] = [request_count |-> 2, error_count |-> 1]
       /\ total_requests(stats) = 2

(***************************************************************************)
(* Claims about the Registry's group buckets, checked under SpecRegistry.  *)
(***************************************************************************)
\* Every id stored in a bucket of index is a key of records.
BucketsRefer(index, records) ==
  \A g \in DOMAIN index : index[g] \subseteq DOMAIN records

\* C35: in every reachable Registry state each id stored in a group bucket
\* refers to a record that exists in the record map, for endpoints and for
\* system parts, so that list_by_image, services_map and parts_map find a
\* record for every id of a bucket and never reference a deregistered id.
C35_BucketsReferToRecords ==
  /\ BucketsRefer(by_image, endpoints)
  /\ BucketsRefer(by_kind, parts)

\* C35's case: a deregister has just removed a record, and a bucket still
\* holds its id.
C35_DeregisteredIdInBucket ==
  /\ last_call = "deregister"
  /\ ret = Bool(TRUE)
  /\ \E g \in DOMAIN by_image : \E i \in by_image[g] : i \notin DOMAIN endpoints

(***************************************************************************)
(* Claims about successive evaluation windows, checked under SpecRun.      *)
(***************************************************************************)
\* Every algorithm has at least min_requests_for_switch requests and a score
\* below 0.8 in the counters st.
AllPoor(st) ==
  \A k \in 1..NumAlgorithms :
    /\ st[AlgoNames[k]].request_count >= min_requests_for_switch
    /\ ScoreBelowThreshold(calculate_algorithm_score(st[AlgoNames[k]]))

\* The picker, the counters, the algorithms and the clock now.
RunState ==
  [picker |-> picker, stats |-> stats,
   algos |-> [rr |-> rr, lc |-> lc, wrr |-> wrr], t |-> lb_now]

\* From x, one evaluation window elapses, Picker.pick is called on the run's
\* backend and the call to the backend it returns fails:
\* record_backend_result(backend, False).
window_pick(x) ==
  LET t == x.t + EVALUATION_WINDOW
      r == picker_pick(x.picker, x.stats, x.algos, <<RunBackend>>, t)
  IN [picker |-> r.picker,
      stats |-> IF "backend" \in DOMAIN r.result
                  THEN record_backend_result(r.picker, r.stats, r.result.backend, FALSE)
                  ELSE r.stats,
      algos |-> r.algos,
      t |-> t]

\* The state after n successive windows, each with a pick, from x.
RECURSIVE windows_after(_, _)
windows_after(x, n) ==
  IF n = 0 THEN x ELSE windows_after(window_pick(x), n - 1)

\* C36: no algorithm is starved by the poor-score switch: if every algorithm
\* has enough samples and keeps a score below 0.8 while picks keep arriving
\* across successive evaluation windows, each of the three algorithms
\* becomes the active algorithm, here within MaxWindows windows.
C36_NoAlgorithmStarved ==
  (\A n \in 0..MaxWindows : AllPoor(windows_after(RunState, n).stats))
  => \A k \in 0..(NumAlgorithms - 1) :
       \E n \in 0..MaxWindows :
         windows_after(RunState, n).picker.current_algorithm_index = k

\* The scores stay below 0.8 over these windows: the hypothesis of C36 is
\* that of every state in which all scores are below 0.8.
PoorStaysPoor ==
  AllPoor(stats) => \A n \in 0..MaxWindows : AllPoor(windows_after(RunState, n).stats)

\* C36's case: every algorithm has enough samples and a score below 0.8, and
\* a pick has just run an evaluation two windows after construction.
C36_AllPoorAcrossWindows ==
  /\ AllPoor(stats)
  /\ last_call = "Picker.pick"
  /\ picker.last_evaluation = lb_now
  /\ lb_now >= 2 * EVALUATION_WINDOW

====
